---- MODULE Spec2Model ----
(***************************************************************************)
(* Verification model of the content-ingestion pipeline of the             *)
(* multilingual summarizer: the content chunker (utils/localStorage.ts),   *)
(* the format dispatcher (utils/fileProcessors.ts) and the PDF extraction  *)
(* engine (utils/pdfUtils.ts).                                             *)
(***************************************************************************)
EXTENDS Integers, Sequences, FiniteSets, TLC

VARIABLES
    content,        \* chunkContent: the text handed to the chunker
    maxChunkSize,   \* chunkContent: the size limit handed to the chunker
    chunks,         \* chunkContent: the array it returned
    cpc,            \* chunker position: "input" before the call, "done" after
    file,           \* per extraction: the File handed to extractTextFromFile
    pc,             \* per extraction: the await at which it is suspended
    lib,            \* per extraction: the awaited promise: "none", "pending" or "never"
    timers,         \* per extraction: the setTimeout timers created and not yet fired
    numPages,       \* extractTextFromPdf: pdfDocument.numPages
    pageNum,        \* extractTextFromPdf: the page loop's counter
    extractedText,  \* extractTextFromPdf: the local text buffer, as a sequence of tokens
    visited,        \* extractTextFromPdf: the pages whose loop body has been entered, in order
    pdfError,       \* extractTextFromPdf: the error its outer catch received
    pdfText,        \* the string extractTextFromPdf returned
    invoked,        \* per extraction: the extractors extractTextFromFile called
    heard,          \* per extraction: the settlements it has received at its awaits, in order
    result,         \* per extraction: how the promise of extractTextFromFile settled
    workerInitialized,  \* pdfUtils.ts module variable
    workerSrc,      \* pdfjs.GlobalWorkerOptions.workerSrc
    textInput,      \* detectLanguage / processContent: the text handed in
    franc,          \* how the franc detector behaves when it is called
    upload,         \* processContent: the file parameter, as the outcome of its extraction
    sourceLanguage, \* processContent: the sourceLanguage parameter
    detected,       \* what detectLanguage returned: the language, the sample, franc's input
    processed,      \* how the promise of processContent settled
    lpc,            \* position of the language call: "idle", "input", "done"
    csvParse,       \* extractFromCsv: what Papa.parse hands to its callbacks
    csvResult,      \* extractFromCsv: how its promise settled
    vpc,            \* position of the CSV call: "idle", "input", "done"
    served,          \* summarize: which handler serves /api/summarize
    req,            \* summarize: the request
    reqChunks,      \* summarize: the chunks the handler made of the content
    chunkSummaries, \* summarize: the handler's chunkSummaries array
    calls,          \* summarize: the anthropic.messages.create calls issued, in order
    response,       \* summarize: the response the handler sent
    hpc,            \* summarize: the await at which the handler is suspended
    window,         \* history: whether the code runs in a browser (typeof window)
    storage,        \* history: localStorage's value under HISTORY_KEY
    saves,          \* history: the number of saveSummaryToHistory calls made
    deletes,        \* history: the number of deleteSummaryFromHistory calls made
    collisions,     \* history: the number of ids generateId has repeated
    lastCall,       \* history: the last call, the history it read and what it returned
    jsonDoc,        \* extractFromJson: the parsed file
    jsonOut,        \* extractFromJson: the line it rendered for the entry of the file
    jpc             \* position of the JSON call: "idle", "input", "done"

chunkVars == <<content, maxChunkSize, chunks, cpc>>

pdfVars == <<numPages, pageNum, extractedText, visited, pdfError, pdfText>>

workerVars == <<workerInitialized, workerSrc>>

extractVars == <<file, pc, lib, timers, pdfVars, invoked, heard, result, workerVars>>

langVars == <<textInput, franc, upload, sourceLanguage, detected, processed, lpc>>

csvVars == <<csvParse, csvResult, vpc>>

sumVars == <<served, req, reqChunks, chunkSummaries, calls, response, hpc>>

histVars == <<window, storage, saves, deletes, collisions, lastCall>>

jsonVars == <<jsonDoc, jsonOut, jpc>>

\* everything outside one component
outsideExtract == <<chunkVars, langVars, csvVars, sumVars, histVars, jsonVars>>
outsideChunk == <<extractVars, langVars, csvVars, sumVars, histVars, jsonVars>>
outsideLang == <<chunkVars, extractVars, csvVars, sumVars, histVars, jsonVars>>
outsideCsv == <<chunkVars, extractVars, langVars, sumVars, histVars, jsonVars>>
outsideSum == <<chunkVars, extractVars, langVars, csvVars, histVars, jsonVars>>
outsideHist == <<chunkVars, extractVars, langVars, csvVars, sumVars, jsonVars>>
outsideJson == <<chunkVars, extractVars, langVars, csvVars, sumVars, histVars>>

vars == <<chunkVars, extractVars, langVars, csvVars, sumVars, histVars, jsonVars>>

-----------------------------------------------------------------------------
(* Bounds of the model *)

MaxLen == 6         \* longest text handed to the chunker
MaxM == 3           \* largest maxChunkSize handed to the chunker
MaxPages == 2       \* most pages of a PDF document
MaxTextLen == 2004  \* longest run of letters in a text handed to detectLanguage

-----------------------------------------------------------------------------
(* Characters.  A text is a sequence of one-character strings. *)

NL == "\n"
SP == " "
Chars == {"a", ".", SP, NL}

IsWs(c) == c \in {SP, NL}           \* the regex class \s
IsPunct(c) == c = "."               \* the regex class [.!?]

Texts == UNION {[1..n -> Chars] : n \in 0..MaxLen}

SetMin(S) == CHOOSE x \in S : \A y \in S : x <= y
SetMax(S) == CHOOSE x \in S : \A y \in S : x >= y

RECURSIVE Concat(_)
Concat(ss) == IF ss = <<>> THEN <<>> ELSE Head(ss) \o Concat(Tail(ss))

-----------------------------------------------------------------------------
(* chunkContent, utils/localStorage.ts *)

\* content.split(/\n\n+/): cut at every maximal run of two or more newlines;
\* the pieces before the first and after the last run are kept even if empty.
RECURSIVE SplitParagraphs(_)
SplitParagraphs(s) ==
    LET starts == {i \in 1..(Len(s) - 1) : s[i] = NL /\ s[i + 1] = NL}
    IN  IF starts = {} THEN <<s>>
        ELSE LET i == SetMin(starts)
                 j == SetMax({k \in i..Len(s) : \A x \in i..k : s[x] = NL})
             IN  <<SubSeq(s, 1, i - 1)>> \o SplitParagraphs(SubSeq(s, j + 1, Len(s)))

\* paragraph.split(/(?<=[.!?])\s+/): cut at every maximal whitespace run that
\* directly follows a sentence terminator.
RECURSIVE SplitSentences(_)
SplitSentences(s) ==
    LET starts == {i \in 2..Len(s) : IsWs(s[i]) /\ IsPunct(s[i - 1])}
    IN  IF starts = {} THEN <<s>>
        ELSE LET i == SetMin(starts)
                 j == SetMax({k \in i..Len(s) : \A x \in i..k : IsWs(s[x])})
             IN  <<SubSeq(s, 1, i - 1)>> \o SplitSentences(SubSeq(s, j + 1, Len(s)))

\* A variant of SliceLoop whose slices are one character wider than its step.
RECURSIVE SliceLoop_overlap(_, _, _)
SliceLoop_overlap(sentence, i, m) ==
    IF i < Len(sentence)
    THEN <<SubSeq(sentence, i + 1, IF i + m + 1 < Len(sentence) THEN i + m + 1 ELSE Len(sentence))>>
         \o SliceLoop_overlap(sentence, i + m, m)
    ELSE <<>>

\* while (i < sentence.length) { chunks.push(sentence.slice(i, i + m)); i += m }
\* (i is the 0-based index of the code; SubSeq is 1-based)
RECURSIVE SliceLoop(_, _, _)
SliceLoop(sentence, i, m) ==
    IF i < Len(sentence)
    THEN <<SubSeq(sentence, i + 1, IF i + m < Len(sentence) THEN i + m ELSE Len(sentence))>>
         \o SliceLoop(sentence, i + m, m)
    ELSE <<>>

\* A variant of SentenceStep that forgets to push the buffered sentences
\* before it slices an oversized sentence.
SentenceStep_noFlush(st, sentence, m) ==
    IF Len(st.buf) + Len(sentence) + 1 > m
    THEN IF Len(sentence) > m
         THEN [chunks |-> st.chunks \o SliceLoop(sentence, 0, m), buf |-> <<>>]
         ELSE [chunks |-> Append(st.chunks, st.buf),
               buf |-> sentence \o <<SP>>]
    ELSE [chunks |-> st.chunks, buf |-> st.buf \o sentence \o <<SP>>]

\* One iteration of `for (const sentence of sentences)`.
\* st = [chunks, buf] with buf the code's sentenceChunk.
SentenceStep(st, sentence, m) ==
    IF Len(st.buf) + Len(sentence) + 1 > m
    THEN IF Len(sentence) > m
         THEN [chunks |-> (IF Len(st.buf) > 0 THEN Append(st.chunks, st.buf) ELSE st.chunks)
                           \o SliceLoop(sentence, 0, m),
               buf |-> <<>>]
         ELSE [chunks |-> Append(st.chunks, st.buf),
               buf |-> sentence \o <<SP>>]
    ELSE [chunks |-> st.chunks, buf |-> st.buf \o sentence \o <<SP>>]

RECURSIVE SentenceLoop(_, _, _)
SentenceLoop(st, sentences, m) ==
    IF sentences = <<>> THEN st
    ELSE SentenceLoop(SentenceStep(st, Head(sentences), m), Tail(sentences), m)

\* The branch for a paragraph longer than m: flush currentChunk, pack the
\* paragraph's sentences, push the remaining sentenceChunk.
SplitLargeParagraph(st, paragraph, m) ==
    LET flushed == IF Len(st.buf) > 0 THEN Append(st.chunks, st.buf) ELSE st.chunks
        r == SentenceLoop([chunks |-> flushed, buf |-> <<>>], SplitSentences(paragraph), m)
    IN  [chunks |-> (IF Len(r.buf) > 0 THEN Append(r.chunks, r.buf) ELSE r.chunks),
         buf |-> <<>>]

\* One iteration of `for (const paragraph of paragraphs)`.
\* st = [chunks, buf] with buf the code's currentChunk.
ParagraphStep(st, paragraph, m) ==
    IF Len(st.buf) + Len(paragraph) + 2 > m
    THEN IF Len(paragraph) > m
         THEN SplitLargeParagraph(st, paragraph, m)
         ELSE [chunks |-> Append(st.chunks, st.buf),
               buf |-> paragraph \o <<NL, NL>>]
    ELSE [chunks |-> st.chunks, buf |-> st.buf \o paragraph \o <<NL, NL>>]

RECURSIVE ParagraphLoop(_, _, _)
ParagraphLoop(st, paragraphs, m) ==
    IF paragraphs = <<>> THEN st
    ELSE ParagraphLoop(ParagraphStep(st, Head(paragraphs), m), Tail(paragraphs), m)

\* A variant of FitsInOneChunk that compares strictly.
FitsInOneChunk_strict(t, m) == Len(t) < m

\* if (content.length <= maxChunkSize) return [content];
FitsInOneChunk(t, m) == Len(t) <= m

chunkContent(t, m) ==
    IF FitsInOneChunk(t, m) THEN <<t>>
    ELSE LET r == ParagraphLoop([chunks |-> <<>>, buf |-> <<>>], SplitParagraphs(t), m)
         IN  IF Len(r.buf) > 0 THEN Append(r.chunks, r.buf) ELSE r.chunks


-----------------------------------------------------------------------------
(* Files handed to extractTextFromFile *)

Procs == {1, 2}

MAX_FILE_SIZE == 52428800

PdfMime == "application/pdf"
DocxMime == "application/vnd.openxmlformats-officedocument.wordprocessingml.document"
DocMime == "application/msword"
XlsxMime == "application/vnd.openxmlformats-officedocument.spreadsheetml.sheet"
XlsMime == "application/vnd.ms-excel"

\* declared MIME types: every type the dispatcher names, the empty type, a
\* text type and a binary type it does not name
Mimes == {"", PdfMime, DocxMime, DocMime, "text/plain", "text/html", "text/csv",
          XlsxMime, XlsMime, "application/json", "text/markdown", "application/zip"}

\* fileType.startsWith('text/')
StartsWithText(t) == t \in {"text/plain", "text/html", "text/csv", "text/markdown"}

KnownExts == {"pdf", "docx", "doc", "txt", "md", "rtf", "html", "htm", "csv",
              "xlsx", "xls", "json"}

\* A file name is the sequence of its parts between dots: <<"f", "pdf">> is
\* f.pdf, <<"pdf">> is the dotless name pdf, <<"f", "">> is the name "f.".
Names == {<<"f", e>> : e \in KnownExts \cup {"PDF", "bin", ""}}
         \cup {<<"pdf">>, <<"csv">>, <<"f">>, <<"f", "pdf", "txt">>, <<"f", "txt", "pdf">>}

\* String.prototype.toLowerCase / toUpperCase on the name parts in use
LowerCase(x) == IF x = "PDF" THEN "pdf" ELSE x

UpperCase(x) ==
    CASE x = "pdf" -> "PDF" [] x = "docx" -> "DOCX" [] x = "doc" -> "DOC"
      [] x = "txt" -> "TXT" [] x = "md" -> "MD" [] x = "rtf" -> "RTF"
      [] x = "html" -> "HTML" [] x = "htm" -> "HTM" [] x = "csv" -> "CSV"
      [] x = "xlsx" -> "XLSX" [] x = "xls" -> "XLS" [] x = "json" -> "JSON"
      [] x = "bin" -> "BIN" [] x = "f" -> "F" [] OTHER -> x

\* What the bytes of a file hold: nothing, whitespace only, text in which the
\* PDF byte scan finds 40, 80, 100 or 120 characters, or text on which the byte
\* scan throws; and the number of pages PDF.js reports when it opens them
\* (0 for a file that is never handed to PDF.js).
ByteClasses == {"empty", "blank", "scan40", "scan80", "scan100", "scan120", "scanfail"}

Sizes == {0, 4096, MAX_FILE_SIZE, MAX_FILE_SIZE + 1}

AllFiles ==
    {f \in [type : Mimes, name : Names, size : Sizes, bytes : ByteClasses,
            pages : 0..MaxPages] :
        /\ (f.size = 0) <=> (f.bytes = "empty")
        /\ (f.pages > 0) <=> (f.type = PdfMime \/ LowerCase(f.name[Len(f.name)]) = "pdf")}

\* every declared type with every name, with one content at the size limit
\* (a one-page document when it is a PDF)
DispatchFiles ==
    {f \in AllFiles : f.size = MAX_FILE_SIZE /\ f.bytes = "scan80" /\ f.pages <= 1}

\* every content and size, for one file of each branch of the dispatch; the
\* documents of several pages are those whose byte scan is below and above
\* the threshold of the quality gate
ContentFiles ==
    {f \in AllFiles :
        /\ \/ f.type = "" /\ f.name \in {<<"f", e>> : e \in KnownExts \cup {"bin"}}
           \/ f.type \in {"text/markdown", "application/zip"} /\ f.name = <<"f", "bin">>
        /\ f.pages <= 1 \/ (f.size = 4096 /\ f.bytes \in {"scan40", "scan120"})}

Files == DispatchFiles \cup ContentFiles

NoFile == [type |-> "", name |-> <<>>, size |-> 0, bytes |-> "none", pages |-> 0]

\* (await file.text()).length and .trim().length of the decoded content
ContentLen(f) == f.size
ContentTrimLen(f) == IF f.bytes \in {"empty", "blank"} THEN 0 ELSE f.size

-----------------------------------------------------------------------------
(* Strings the extractors build, kept as a kind and a length *)

Str(k, n) == [kind |-> k, len |-> n]
NoText == Str("", 0)

NoResult == [status |-> "pending", type |-> "", text |-> NoText, error |-> ""]
Resolved(text, type) == [status |-> "resolved", type |-> type, text |-> text, error |-> ""]
Rejected(error) == [status |-> "rejected", type |-> "", text |-> NoText, error |-> error]

\* The tokens appended to extractedText.  body is the length of the token up
\* to its trailing whitespace.
MetaToken == [kind |-> "meta", page |-> 0, body |-> 57]
MarkerToken(k) == [kind |-> "marker", page |-> k, body |-> 8]
TextToken(k, n) == [kind |-> "text", page |-> k, body |-> n]
ErrorToken(k) == [kind |-> "error", page |-> k, body |-> 35]
RecoveredToken(k, n) == [kind |-> "recovered", page |-> k, body |-> 29 + n]

\* the whitespace that ends a token: '\n' after a page marker, '\n\n' otherwise
TrailWs(tok) == IF tok.kind = "marker" THEN 1 ELSE 2

\* the length of tokens lo..hi as written, trailing whitespace included
RECURSIVE RawLen(_, _, _)
RawLen(text, lo, hi) ==
    IF lo > hi THEN 0
    ELSE text[lo].body + TrailWs(text[lo]) + RawLen(text, lo + 1, hi)

\* the length of tokens lo..hi once every whitespace run is one space
RECURSIVE JoinedLen(_, _, _)
JoinedLen(text, lo, hi) ==
    IF lo > hi THEN 0
    ELSE (IF text[lo].body > 0 THEN text[lo].body + 1 ELSE 0) + JoinedLen(text, lo + 1, hi)

\* extractedText.trim().length
TrimLen(text) ==
    LET solid == {i \in 1..Len(text) : text[i].body > 0}
    IN  IF solid = {} THEN 0
        ELSE RawLen(text, SetMin(solid), SetMax(solid)) - TrailWs(text[SetMax(solid)])

\* extractedText.replace(/\s+/g, ' ').replace(/\n\s*\n/g, '\n\n').trim().length
CleanLen(text) ==
    LET solid == {i \in 1..Len(text) : text[i].body > 0}
    IN  IF solid = {} THEN 0 ELSE JoinedLen(text, 1, Len(text)) - 1

\* A whitespace run, as the spaces and the newlines it holds; the run that
\* ends a token of the buffer
Run(spaces, newlines) == [spaces |-> spaces, newlines |-> newlines]
TrailRun(tok) == Run(0, TrailWs(tok))

\* .replace(/\s+/g, ' ') on a run: \s matches newlines too
CollapseWhitespace(run) ==
    IF run.spaces + run.newlines > 0 THEN Run(1, 0) ELSE run

\* .replace(/\n\s*\n/g, '\n\n') on a run
NormalizeBlankLines(run) ==
    IF run.newlines >= 2 THEN Run(0, 2) ELSE run

\* the clean-up of extractedText, on one of its whitespace runs
CleanRun(run) == NormalizeBlankLines(CollapseWhitespace(run))

\* extractBasicTextFromPdf: the text the byte scan finds, or its message
\* 'No readable text content could be extracted from this PDF.', or from its
\* catch 'Failed to extract text from PDF using basic methods: ...'
extractBasicTextFromPdf(bytes) ==
    CASE bytes = "scan40" -> Str("scan", 40)
      [] bytes = "scan80" -> Str("scan", 80)
      [] bytes = "scan100" -> Str("scan", 100)
      [] bytes = "scan120" -> Str("scan", 120)
      [] bytes = "scanfail" -> Str("scan_failed_msg", 66)
      [] OTHER -> Str("no_readable_msg", 58)

\* A variant of PdfMainResult without the quality gate.
PdfMainResult_noGate(text, bytes) == Str("cleaned", CleanLen(text))

\* extractTextFromPdf, the quality gate and the clean-up after the page loop
PdfMainResult(text, bytes) ==
    IF TrimLen(text) < 50
    THEN LET basicText == extractBasicTextFromPdf(bytes)
         IN  IF basicText.len > 100 THEN basicText
             ELSE IF TrimLen(text) < 100 THEN Str("scanned_msg", 300)
             ELSE Str("cleaned", CleanLen(text))
    ELSE Str("cleaned", CleanLen(text))

\* extractTextFromPdf, the outer catch; the error message follows 'Error: '
ErrorMessageLen(err) == IF err = "load_timeout" THEN 36 ELSE 0

\* A variant of PdfCatchResult that gives up on the byte scan and reports the error.
PdfCatchResult_errorOnly(bytes, err) == Str("unable_msg", 292 + ErrorMessageLen(err))

PdfCatchResult(bytes, err) ==
    LET basicExtractedText == extractBasicTextFromPdf(bytes)
    IN  IF basicExtractedText.len > 50
        THEN Str(CASE basicExtractedText.kind = "scan" -> "scan_with_note"
                   [] basicExtractedText.kind = "scan_failed_msg" -> "scan_failed_msg_with_note"
                   [] OTHER -> "no_readable_msg_with_note",
                 basicExtractedText.len + 83)
        ELSE Str("unable_msg", 292 + ErrorMessageLen(err))

-----------------------------------------------------------------------------
(* extractTextFromFile, utils/fileProcessors.ts: the dispatch *)

fileType(f) == f.type                                   \* file.type || ''

\* file.name.toLowerCase().split('.').pop() || ''
fileExtension(f) == LowerCase(f.name[Len(f.name)])

\* A variant of Route that tests every declared type before any extension.
Route_typesFirst(type, ext) ==
    IF type = PdfMime THEN "PDF"
    ELSE IF type = DocxMime THEN "DOCX"
    ELSE IF type = DocMime THEN "DOC"
    ELSE IF type = "text/plain" THEN "TXT"
    ELSE IF type = "text/html" THEN "HTML"
    ELSE IF type = "text/csv" THEN "CSV"
    ELSE IF type = XlsxMime \/ type = XlsMime THEN "XLSX"
    ELSE IF type = "application/json" THEN "JSON"
    ELSE IF ext = "pdf" THEN "PDF"
    ELSE IF ext = "docx" THEN "DOCX"
    ELSE IF ext = "doc" THEN "DOC"
    ELSE IF ext = "txt" \/ ext = "md" \/ ext = "rtf" THEN "TXT"
    ELSE IF ext = "html" \/ ext = "htm" THEN "HTML"
    ELSE IF ext = "csv" THEN "CSV"
    ELSE IF ext = "xlsx" \/ ext = "xls" THEN "XLSX"
    ELSE IF ext = "json" THEN "JSON"
    ELSE IF type = "" \/ StartsWithText(type) THEN "TEXT"
    ELSE "NONE"

\* The chain of if-statements of extractTextFromFile: the branch taken.
Route(type, ext) ==
    IF type = PdfMime \/ ext = "pdf" THEN "PDF"
    ELSE IF type = DocxMime \/ ext = "docx" THEN "DOCX"
    ELSE IF type = DocMime \/ ext = "doc" THEN "DOC"
    ELSE IF type = "text/plain" \/ ext = "txt" \/ ext = "md" \/ ext = "rtf" THEN "TXT"
    ELSE IF type = "text/html" \/ ext = "html" \/ ext = "htm" THEN "HTML"
    ELSE IF type = "text/csv" \/ ext = "csv" THEN "CSV"
    ELSE IF type = XlsxMime \/ type = XlsMime \/ ext = "xlsx" \/ ext = "xls" THEN "XLSX"
    ELSE IF type = "application/json" \/ ext = "json" THEN "JSON"
    ELSE IF type = "" \/ StartsWithText(type) THEN "TEXT"
    ELSE "NONE"

\* An error message, kept as the set of the substrings the outer catch of
\* extractTextFromFile looks for.
Markers == {"Unsupported file type", "password", "corrupt", "invalid", "size"}
LibMessages == {{}} \cup {{m} : m \in Markers}

\* 'Unsupported file type: ...\nPlease try with DOCX, TXT, HTML, or CSV files.'
UnsupportedMessage == {"Unsupported file type"}
\* 'Failed to extract text from DOCX file. The file may be corrupted or incompatible.'
DocxFailure == {"corrupt"}
\* 'Failed to extract text from HTML file.', 'Failed to process CSV data after parsing.'
PlainFailure == {}

\* The outer catch of extractTextFromFile: the error it throws for a message.
OuterCatch(msg) ==
    IF "Unsupported file type" \in msg THEN "UnsupportedFormat"
    ELSE IF "password" \in msg THEN "PasswordProtected"
    ELSE IF "corrupt" \in msg \/ "invalid" \in msg THEN "CorruptedFile"
    ELSE IF "size" \in msg THEN "TooLarge"
    ELSE "FailedToProcess"

\* A variant of ExceedsSizeLimit that also refuses a file of exactly the limit.
ExceedsSizeLimit_ge(f) == f.size >= MAX_FILE_SIZE

\* if (file.size > MAX_FILE_SIZE) throw ..., ahead of the try block
ExceedsSizeLimit(f) == f.size > MAX_FILE_SIZE

\* A variant of FallbackResult that tests the content without trimming it.
FallbackResult_noTrim(f) ==
    IF ContentLen(f) > 0 THEN Resolved(Str("content", ContentLen(f)), "TEXT")
    ELSE Rejected("UnsupportedFormat")

\* The generic fallback: content && content.trim().length > 0, else the
\* 'Unsupported file type' error through the outer catch.
FallbackResult(f) ==
    IF ContentLen(f) > 0 /\ ContentTrimLen(f) > 0
    THEN Resolved(Str("content", ContentLen(f)), "TEXT")
    ELSE Rejected(OuterCatch(UnsupportedMessage))

\* What extractFromDoc meets: whether file.arrayBuffer() resolves, what
\* zip.loadAsync finds (not a zip, a zip without or with word/document.xml),
\* what mammoth.extractRawText gives (a throw, or a text of this length), and
\* the length of the decoded text after its clean-up.
DocCases ==
    [read : {"ok", "throws"}, zip : {"not_zip", "other_zip", "docx_zip"},
     mammoth : {"throws", "empty", "text"}, cleaned : {0, 10}]

DocTextLen == 10        \* length of a text mammoth extracts, in the cases above

\* A variant of extractFromDoc that returns the cleaned text as it is.
extractFromDoc_noCaveat(d) ==
    IF d.read = "throws" THEN Str("doc_failed_msg", 85)
    ELSE IF d.zip = "docx_zip" /\ d.mammoth = "text" THEN Str("doc_docx_text", DocTextLen)
    ELSE IF d.zip = "docx_zip" /\ d.mammoth = "empty" THEN Str("doc_docx_limited_msg", 87)
    ELSE Str("doc_cleaned", d.cleaned)

\* extractFromDoc(file): the string it resolves to
extractFromDoc(d) ==
    IF d.read = "throws" THEN Str("doc_failed_msg", 85)
    ELSE IF d.zip = "docx_zip" /\ d.mammoth = "text" THEN Str("doc_docx_text", DocTextLen)
    ELSE IF d.zip = "docx_zip" /\ d.mammoth = "empty" THEN Str("doc_docx_limited_msg", 87)
    ELSE IF d.cleaned > 0 THEN Str("doc_cleaned", d.cleaned)
    ELSE Str("doc_limited_msg", 99)

\* 'Excel files are currently converted to text. ...\n\n'
ExcelBannerLen == 115

\* A variant of PlainTextResult that trims the content.
PlainTextResult_trimmed(f) ==
    Resolved(Str("content", ContentTrimLen(f)),
             IF fileExtension(f) = "" THEN "TXT" ELSE UpperCase(fileExtension(f)))

\* { text: await file.text(), type: fileExtension.toUpperCase() || 'TXT' }
PlainTextResult(f) ==
    Resolved(Str("content", ContentLen(f)),
             IF fileExtension(f) = "" THEN "TXT" ELSE UpperCase(fileExtension(f)))

\* What each non-PDF branch returns once its extractor resolves.
OkResults(route, f) ==
    CASE route = "DOCX" -> {Resolved(Str("docx_text", n), "DOCX") : n \in {0, 10}}
      [] route = "DOC" -> {Resolved(extractFromDoc(d), "DOC") : d \in DocCases}
      [] route = "TXT" -> {PlainTextResult(f)}
      [] route = "HTML" -> {Resolved(Str("html_text", ContentLen(f)), "HTML")}
      [] route = "CSV" -> {Resolved(Str("csv_report", 10), "CSV")}
      [] route = "XLSX" ->
            {Resolved(Str("excel_banner_and_text", ExcelBannerLen + extractFromDoc(d).len),
                      UpperCase(fileExtension(f))) : d \in DocCases}
      [] route = "JSON" -> {Resolved(Str(k, 10), "JSON") : k \in {"json_report", "json_error_msg"}}
      [] route = "TEXT" -> {FallbackResult(f)}
      [] OTHER -> {}

\* What each non-PDF branch throws once its extractor rejects; extractFromDoc
\* and extractFromJson catch everything themselves.
ThrowResults(route, f) ==
    CASE route = "DOCX" -> {Rejected(OuterCatch(DocxFailure))}
      [] route = "TXT" -> {Rejected(OuterCatch(m)) : m \in LibMessages}
      [] route = "HTML" -> {Rejected(OuterCatch(PlainFailure))}
      [] route = "CSV" -> {Rejected(OuterCatch(m)) : m \in LibMessages}
      [] route = "TEXT" -> {Rejected(OuterCatch(UnsupportedMessage))}
      [] OTHER -> {}

LibStates == {"pending", "never"}

\* A settlement received at an await: which one, and the value it carried.
Answer(op, n, r) == [op |-> op, n |-> n, r |-> r]

\* extraction p resumes with a settlement
Hears(p, op, n, r) == heard' = [heard EXCEPT ![p] = Append(@, Answer(op, n, r))]

\* extractTextFromFile up to its first await
StartExtract(p) ==
    /\ pc[p] = "start"
    /\ IF ExceedsSizeLimit(file[p])
       THEN /\ result' = [result EXCEPT ![p] = Rejected("FileSizeExceeds")]
            /\ pc' = [pc EXCEPT ![p] = "done"]
            /\ UNCHANGED <<lib, invoked>>
       ELSE LET route == Route(fileType(file[p]), fileExtension(file[p]))
            IN  IF route = "NONE"
                THEN /\ result' = [result EXCEPT ![p] = Rejected(OuterCatch(UnsupportedMessage))]
                     /\ pc' = [pc EXCEPT ![p] = "done"]
                     /\ UNCHANGED <<lib, invoked>>
                ELSE /\ pc' = [pc EXCEPT ![p] = IF route = "PDF" THEN "pdf_read" ELSE "extractor"]
                     /\ \E h \in LibStates : lib' = [lib EXCEPT ![p] = h]
                     /\ invoked' = [invoked EXCEPT ![p] = @ \cup {route}]
                     /\ UNCHANGED result
    /\ UNCHANGED <<heard, file, timers, pdfVars, workerVars, outsideExtract>>

\* the awaited extractor of a non-PDF branch resolves
ExtractorResolves(p) ==
    /\ pc[p] = "extractor"
    /\ lib[p] = "pending"
    /\ \E r \in OkResults(Route(fileType(file[p]), fileExtension(file[p])), file[p]) :
            /\ result' = [result EXCEPT ![p] = r]
            /\ Hears(p, "resolved", 0, r)
    /\ pc' = [pc EXCEPT ![p] = "done"]
    /\ lib' = [lib EXCEPT ![p] = "none"]
    /\ UNCHANGED <<file, timers, pdfVars, invoked, workerVars, outsideExtract>>

\* the awaited extractor of a non-PDF branch rejects
ExtractorRejects(p) ==
    /\ pc[p] = "extractor"
    /\ lib[p] = "pending"
    /\ \E r \in ThrowResults(Route(fileType(file[p]), fileExtension(file[p])), file[p]) :
            /\ result' = [result EXCEPT ![p] = r]
            /\ Hears(p, "rejected", 0, r)
    /\ pc' = [pc EXCEPT ![p] = "done"]
    /\ lib' = [lib EXCEPT ![p] = "none"]
    /\ UNCHANGED <<file, timers, pdfVars, invoked, workerVars, outsideExtract>>

-----------------------------------------------------------------------------
(* extractTextFromPdf, utils/pdfUtils.ts *)

\* page text lengths the library may return: an empty page, a text longer
\* than the recovery threshold, a text at the quality gate
PageTextLens == {0, 21, 50}

LoadTimer == 0                  \* the name of the document-load timer
PageTimer(k) == k               \* the name of the timer of page k

\* initPdfJsWorker: <<workerInitialized, workerSrc>> after the call
initPdfJsWorker(initialized, src) ==
    IF initialized THEN <<initialized, src>> ELSE <<TRUE, "cdn">>

\* A variant of AppendText in which the buffer is one module-level string
\* that every extraction appends to.
AppendText_shared(p, toks) == [q \in Procs |-> extractedText[q] \o toks]

\* extractedText += token, on the buffer of extraction p
AppendText(p, toks) == [extractedText EXCEPT ![p] = @ \o toks]

\* the tokens of a page whose text was extracted: the marker only when the
\* document has more than one page
PageTokens(n, k, len) ==
    (IF n > 1 THEN <<MarkerToken(k)>> ELSE <<>>) \o <<TextToken(k, len)>>

\* the tokens of the recovery of page k: only a text longer than 20
RecoveredTokens(k, len) == IF len > 20 THEN <<RecoveredToken(k, len)>> ELSE <<>>

\* file.arrayBuffer() resolved: extractTextFromPdf runs initPdfJsWorker,
\* getDocument and setTimeout(15000), and awaits the race
PdfReadOk(p) ==
    /\ pc[p] = "pdf_read"
    /\ lib[p] = "pending"
    /\ LET w == initPdfJsWorker(workerInitialized, workerSrc)
       IN  workerInitialized' = w[1] /\ workerSrc' = w[2]
    /\ \E h \in LibStates : lib' = [lib EXCEPT ![p] = h]
    /\ timers' = [timers EXCEPT ![p] = @ \cup {LoadTimer}]
    /\ pc' = [pc EXCEPT ![p] = "pdf_load"]
    /\ Hears(p, "read_ok", 0, NoResult)
    /\ UNCHANGED <<file, pdfVars, invoked, result, outsideExtract>>

\* file.arrayBuffer() rejected: the catch inside the PDF branch
PdfReadThrow(p) ==
    /\ pc[p] = "pdf_read"
    /\ lib[p] = "pending"
    /\ result' = [result EXCEPT ![p] = Resolved(Str("pdf_error_msg", 120), "PDF (Error)")]
    /\ pc' = [pc EXCEPT ![p] = "done"]
    /\ lib' = [lib EXCEPT ![p] = "none"]
    /\ Hears(p, "read_throw", 0, NoResult)
    /\ UNCHANGED <<file, timers, pdfVars, invoked, workerVars, outsideExtract>>

\* loadingTask.promise wins the race; getMetadata is awaited
LoadOk(p) ==
    /\ pc[p] = "pdf_load"
    /\ lib[p] = "pending"
    /\ workerSrc = "cdn"
    /\ numPages' = [numPages EXCEPT ![p] = file[p].pages]
    /\ extractedText' = [extractedText EXCEPT ![p] = <<>>]
    /\ \E h \in LibStates : lib' = [lib EXCEPT ![p] = h]
    /\ pc' = [pc EXCEPT ![p] = "pdf_meta"]
    /\ Hears(p, "load_ok", file[p].pages, NoResult)
    /\ UNCHANGED <<file, timers, pageNum, visited, pdfError, pdfText, invoked, result,
                   workerVars, outsideExtract>>

\* loadingTask.promise rejects: the outer catch
LoadThrow(p) ==
    /\ pc[p] = "pdf_load"
    /\ lib[p] = "pending"
    /\ pdfError' = [pdfError EXCEPT ![p] = "load_failed"]
    /\ lib' = [lib EXCEPT ![p] = "none"]
    /\ pc' = [pc EXCEPT ![p] = "pdf_catch"]
    /\ Hears(p, "load_throw", 0, NoResult)
    /\ UNCHANGED <<file, timers, numPages, pageNum, extractedText, visited, pdfText,
                   invoked, result, workerVars, outsideExtract>>

\* the 15-second timer fires during the race: the outer catch
LoadTimeout(p) ==
    /\ pc[p] = "pdf_load"
    /\ LoadTimer \in timers[p]
    /\ timers' = [timers EXCEPT ![p] = @ \ {LoadTimer}]
    /\ pdfError' = [pdfError EXCEPT ![p] = "load_timeout"]
    /\ lib' = [lib EXCEPT ![p] = "none"]
    /\ pc' = [pc EXCEPT ![p] = "pdf_catch"]
    /\ Hears(p, "load_timeout", 0, NoResult)
    /\ UNCHANGED <<file, numPages, pageNum, extractedText, visited, pdfText,
                   invoked, result, workerVars, outsideExtract>>

\* The head of `for (pageNum ...; pageNum <= numPages; ...)` with pageNum = k:
\* getPage(k) is awaited, or the loop is over.
EnterPage(p, k) ==
    /\ pageNum' = [pageNum EXCEPT ![p] = k]
    /\ IF k <= numPages[p]
       THEN /\ pc' = [pc EXCEPT ![p] = "pdf_getPage"]
            /\ visited' = [visited EXCEPT ![p] = Append(@, k)]
            /\ \E h \in LibStates : lib' = [lib EXCEPT ![p] = h]
       ELSE /\ pc' = [pc EXCEPT ![p] = "pdf_gate"]
            /\ lib' = [lib EXCEPT ![p] = "none"]
            /\ UNCHANGED visited

\* getMetadata resolves, with or without an info record
MetaOk(p, hasInfo) ==
    /\ pc[p] = "pdf_meta"
    /\ lib[p] = "pending"
    /\ extractedText' = IF hasInfo THEN AppendText(p, <<MetaToken>>) ELSE extractedText
    /\ EnterPage(p, 1)
    /\ Hears(p, "meta_ok", IF hasInfo THEN 1 ELSE 0, NoResult)
    /\ UNCHANGED <<file, timers, numPages, pdfError, pdfText, invoked, result,
                   workerVars, outsideExtract>>

\* getMetadata rejects: caught and ignored
MetaThrow(p) ==
    /\ pc[p] = "pdf_meta"
    /\ lib[p] = "pending"
    /\ EnterPage(p, 1)
    /\ Hears(p, "meta_throw", 0, NoResult)
    /\ UNCHANGED <<file, timers, numPages, extractedText, pdfError, pdfText, invoked,
                   result, workerVars, outsideExtract>>

\* getPage resolves: getTextContent and setTimeout(5000), and the race
GetPageOk(p) ==
    /\ pc[p] = "pdf_getPage"
    /\ lib[p] = "pending"
    /\ timers' = [timers EXCEPT ![p] = @ \cup {PageTimer(pageNum[p])}]
    /\ \E h \in LibStates : lib' = [lib EXCEPT ![p] = h]
    /\ pc' = [pc EXCEPT ![p] = "pdf_text"]
    /\ Hears(p, "getPage_ok", 0, NoResult)
    /\ UNCHANGED <<file, pdfVars, invoked, result, workerVars, outsideExtract>>

\* The catch of the page loop: the placeholder line, then getPage again for
\* the recovery.
PageCatch(p) ==
    /\ extractedText' = AppendText(p, <<ErrorToken(pageNum[p])>>)
    /\ pc' = [pc EXCEPT ![p] = "pdf_recGetPage"]
    /\ \E h \in LibStates : lib' = [lib EXCEPT ![p] = h]

\* getPage rejects
GetPageThrow(p) ==
    /\ pc[p] = "pdf_getPage"
    /\ lib[p] = "pending"
    /\ PageCatch(p)
    /\ Hears(p, "getPage_throw", 0, NoResult)
    /\ UNCHANGED <<file, timers, numPages, pageNum, visited, pdfError, pdfText, invoked,
                   result, workerVars, outsideExtract>>

\* getTextContent wins the race with a text of length len
TextOk(p, len) ==
    /\ pc[p] = "pdf_text"
    /\ lib[p] = "pending"
    /\ extractedText' = AppendText(p, PageTokens(numPages[p], pageNum[p], len))
    /\ EnterPage(p, pageNum[p] + 1)
    /\ Hears(p, "text_ok", len, NoResult)
    /\ UNCHANGED <<file, timers, numPages, pdfError, pdfText, invoked, result,
                   workerVars, outsideExtract>>

\* getTextContent rejects (or its result has no items to map)
TextThrow(p) ==
    /\ pc[p] = "pdf_text"
    /\ lib[p] = "pending"
    /\ PageCatch(p)
    /\ Hears(p, "text_throw", 0, NoResult)
    /\ UNCHANGED <<file, timers, numPages, pageNum, visited, pdfError, pdfText, invoked,
                   result, workerVars, outsideExtract>>

\* the 5-second timer of the page fires during the race
TextTimeout(p) ==
    /\ pc[p] = "pdf_text"
    /\ PageTimer(pageNum[p]) \in timers[p]
    /\ timers' = [timers EXCEPT ![p] = @ \ {PageTimer(pageNum[p])}]
    /\ PageCatch(p)
    /\ Hears(p, "text_timeout", 0, NoResult)
    /\ UNCHANGED <<file, numPages, pageNum, visited, pdfError, pdfText, invoked,
                   result, workerVars, outsideExtract>>

\* recovery: getPage resolves and getViewport returns; getTextContent with
\* disableCombineTextItems is awaited, with no timer
RecGetPageOk(p) ==
    /\ pc[p] = "pdf_recGetPage"
    /\ lib[p] = "pending"
    /\ \E h \in LibStates : lib' = [lib EXCEPT ![p] = h]
    /\ pc' = [pc EXCEPT ![p] = "pdf_recText"]
    /\ Hears(p, "rec_getPage_ok", 0, NoResult)
    /\ UNCHANGED <<file, timers, pdfVars, invoked, result, workerVars, outsideExtract>>

\* recovery: getPage rejects or getViewport throws: silent, next page
RecGetPageThrow(p) ==
    /\ pc[p] = "pdf_recGetPage"
    /\ lib[p] = "pending"
    /\ EnterPage(p, pageNum[p] + 1)
    /\ Hears(p, "rec_getPage_throw", 0, NoResult)
    /\ UNCHANGED <<file, timers, numPages, extractedText, pdfError, pdfText, invoked,
                   result, workerVars, outsideExtract>>

\* recovery: getTextContent resolves with a text of length len
RecTextOk(p, len) ==
    /\ pc[p] = "pdf_recText"
    /\ lib[p] = "pending"
    /\ extractedText' = AppendText(p, RecoveredTokens(pageNum[p], len))
    /\ EnterPage(p, pageNum[p] + 1)
    /\ Hears(p, "rec_text_ok", len, NoResult)
    /\ UNCHANGED <<file, timers, numPages, pdfError, pdfText, invoked, result,
                   workerVars, outsideExtract>>

\* recovery: getTextContent rejects: silent, next page
RecTextThrow(p) ==
    /\ pc[p] = "pdf_recText"
    /\ lib[p] = "pending"
    /\ EnterPage(p, pageNum[p] + 1)
    /\ Hears(p, "rec_text_throw", 0, NoResult)
    /\ UNCHANGED <<file, timers, numPages, extractedText, pdfError, pdfText, invoked,
                   result, workerVars, outsideExtract>>

\* after the loop: the quality gate, the byte-scan fallback, the clean-up
PdfGate(p) ==
    /\ pc[p] = "pdf_gate"
    /\ pdfText' = [pdfText EXCEPT ![p] = PdfMainResult(extractedText[p], file[p].bytes)]
    /\ pc' = [pc EXCEPT ![p] = "pdf_return"]
    /\ UNCHANGED <<heard, file, lib, timers, numPages, pageNum, extractedText, visited,
                   pdfError,
                   invoked, result, workerVars, outsideExtract>>

\* the outer catch: the byte-scan fallback or the error text
PdfCatch(p) ==
    /\ pc[p] = "pdf_catch"
    /\ pdfText' = [pdfText EXCEPT ![p] = PdfCatchResult(file[p].bytes, pdfError[p])]
    /\ pc' = [pc EXCEPT ![p] = "pdf_return"]
    /\ UNCHANGED <<heard, file, lib, timers, numPages, pageNum, extractedText, visited,
                   pdfError,
                   invoked, result, workerVars, outsideExtract>>

\* extractTextFromFile after `await extractTextFromPdf(arrayBuffer)`
PdfBranchResult(text) ==
    IF text.len > 0 /\ text.len > 50
    THEN Resolved(text, "PDF")
    ELSE Resolved(Str("pdf_limited_msg", 500), "PDF (Limited Extraction)")

PdfReturn(p) ==
    /\ pc[p] = "pdf_return"
    /\ result' = [result EXCEPT ![p] = PdfBranchResult(pdfText[p])]
    /\ pc' = [pc EXCEPT ![p] = "done"]
    /\ UNCHANGED <<heard, file, lib, timers, pdfVars, invoked, workerVars, outsideExtract>>

\* a timer fires after its race is over: it rejects a promise nobody awaits
TimerExpires(p, t) ==
    /\ t \in timers[p]
    /\ ~(pc[p] = "pdf_load" /\ t = LoadTimer)
    /\ ~(pc[p] = "pdf_text" /\ t = PageTimer(pageNum[p]))
    /\ timers' = [timers EXCEPT ![p] = @ \ {t}]
    /\ UNCHANGED <<heard, file, pc, lib, pdfVars, invoked, result, workerVars, outsideExtract>>

-----------------------------------------------------------------------------
(* detectLanguage (utils/languageDetection.ts) and processContent           *)
(* (utils/contentProcessor.ts)                                              *)

\* A text handed to the detector: lead whitespace characters, then body
\* letters, then trail whitespace characters.
LeadLens == {0, 2, 650}
TrailLens == {0, 3, 650}
BodyLens == (0..25) \cup (995..1005) \cup (1995..MaxTextLen)

\* bodies that reach past the prefix processContent hands to the detector
LongBodyLens == {4999, 5000, 5001, 5600}

LangTexts == [lead : LeadLens, body : BodyLens \cup LongBodyLens, trail : TrailLens]

NoLangText == [lead |-> 0, body |-> 0, trail |-> 0]

TextLength(t) == t.lead + t.body + t.trail      \* text.length
IsBlank(t) == t.body = 0                        \* text.trim() === ''

\* the runs of a text, each with the positions [from, to) it occupies
RunsOf(t) ==
    << [ws |-> TRUE, from |-> 0, to |-> t.lead],
       [ws |-> FALSE, from |-> t.lead, to |-> t.lead + t.body],
       [ws |-> TRUE, from |-> t.lead + t.body, to |-> TextLength(t)] >>

Max2(a, b) == IF a >= b THEN a ELSE b
Min2(a, b) == IF a <= b THEN a ELSE b

\* A piece of a sample: the characters [lo, hi) of the text, or one space.
Seg(lo, hi) == [sep |-> FALSE, lo |-> lo, hi |-> hi]
Space == [sep |-> TRUE, lo |-> 0, hi |-> 1]

\* String.prototype.slice(a, b) on a string of length len: a negative index
\* counts from the end, both are clamped, an inverted range is empty
SliceIndex(len, i) == IF i < 0 THEN Max2(len + i, 0) ELSE Min2(i, len)
Slice(len, a, b) ==
    LET from == SliceIndex(len, a)
    IN  Seg(from, Max2(from, SliceIndex(len, b)))

\* the thresholds and zone sizes of detectLanguage, the minimum of francDetect
\* and the prefix processContent hands over
LongTextLimit == 2000
ModerateTextLimit == 1000
ZoneLen == 600
HalfZone == 300
MinDetectLen == 20
DetectPrefix == 5000

\* A variant of SampleOf that takes the three zones from 2000 characters on.
SampleOf_zonesAtLimit(len) ==
    IF len >= LongTextLimit
    THEN LET middleStart == (len \div 2) - HalfZone
         IN  << Slice(len, 0, ZoneLen), Space, Slice(len, middleStart, middleStart + ZoneLen),
                Space, Slice(len, len - ZoneLen, len) >>
    ELSE IF len > ModerateTextLimit THEN << Slice(len, 0, ModerateTextLimit) >>
    ELSE << Seg(0, len) >>

\* sampleText of detectLanguage, for a text of length len
SampleOf(len) ==
    IF len > LongTextLimit
    THEN LET middleStart == (len \div 2) - HalfZone
         IN  << Slice(len, 0, ZoneLen), Space, Slice(len, middleStart, middleStart + ZoneLen),
                Space, Slice(len, len - ZoneLen, len) >>
    ELSE IF len > ModerateTextLimit THEN << Slice(len, 0, ModerateTextLimit) >>
    ELSE << Seg(0, len) >>

\* the characters of a sample of text t, as runs [ws, n]
RECURSIVE SampleRuns(_, _)
SampleRuns(t, pieces) ==
    IF pieces = <<>> THEN <<>>
    ELSE LET pc0 == Head(pieces)
             cut(r) == [ws |-> r.ws,
                        n |-> Max2(0, Min2(r.to, pc0.hi) - Max2(r.from, pc0.lo))]
             runs == IF pc0.sep THEN << [ws |-> TRUE, n |-> 1] >>
                     ELSE [i \in 1..3 |-> cut(RunsOf(t)[i])]
         IN  runs \o SampleRuns(t, Tail(pieces))

\* text.trim().replace(/\s+/g, ' ').length of a sequence of runs: the letters,
\* and one space for every stretch of whitespace between two letters
NormalizedLen(runs) ==
    LET solid == {i \in 1..Len(runs) : ~runs[i].ws /\ runs[i].n > 0}
        letters[i \in 0..Len(runs)] ==
            IF i = 0 THEN 0 ELSE letters[i - 1] + (IF i \in solid THEN runs[i].n ELSE 0)
        gaps == {i \in solid : /\ i # SetMax(solid)
                               /\ LET next == SetMin({j \in solid : j > i})
                                  IN  \E j \in (i + 1)..(next - 1) : runs[j].ws /\ runs[j].n > 0}
    IN  IF solid = {} THEN 0 ELSE letters[Len(runs)] + Cardinality(gaps)

\* how franc behaves: it is not a function, it throws, or it returns a code
\* (undetermined, one in languageMap, one that is not)
FrancBehaviours == {"unavailable", "throws", "und", "eng", "sco"}

NotCalled == -1

\* A variant of francDetect without the minimum length.
francDetect_noMinimum(normalizedLen, fr) ==
    IF fr = "unavailable" THEN [code |-> "und", arg |-> NotCalled]
    ELSE IF fr = "throws" THEN [code |-> "und", arg |-> normalizedLen]
    ELSE [code |-> fr, arg |-> normalizedLen]

\* A variant of francDetect that answers English when franc cannot be used.
francDetect_defaultEnglish(normalizedLen, fr) ==
    IF fr = "unavailable" THEN [code |-> "eng", arg |-> NotCalled]
    ELSE IF normalizedLen < MinDetectLen THEN [code |-> "und", arg |-> NotCalled]
    ELSE IF fr = "throws" THEN [code |-> "eng", arg |-> normalizedLen]
    ELSE [code |-> fr, arg |-> normalizedLen]

\* francDetect: the code it returns and the length of the text franc was
\* called with (NotCalled when it was not)
francDetect(normalizedLen, fr) ==
    IF fr = "unavailable" THEN [code |-> "und", arg |-> NotCalled]
    ELSE IF normalizedLen < MinDetectLen THEN [code |-> "und", arg |-> NotCalled]
    ELSE IF fr = "throws" THEN [code |-> "und", arg |-> normalizedLen]
    ELSE [code |-> fr, arg |-> normalizedLen]

\* languageMap[langCode], "" when the code is not a key
languageMap(code) ==
    CASE code = "eng" -> "English"
      [] code = "spa" -> "Spanish"
      [] code = "fra" -> "French"
      [] OTHER -> ""

NoDetection == [status |-> "none", language |-> "", sample |-> <<>>, francArg |-> NotCalled]

\* detectLanguage(text)
detectLanguage(t, fr) ==
    IF TextLength(t) = 0 \/ IsBlank(t)
    THEN [status |-> "resolved", language |-> "unknown", sample |-> <<>>,
          francArg |-> NotCalled]
    ELSE LET sampleText == SampleOf(TextLength(t))
             answer == francDetect(NormalizedLen(SampleRuns(t, sampleText)), fr)
         IN  [status |-> "resolved",
              language |-> IF answer.code = "und" THEN "unknown"
                           ELSE IF languageMap(answer.code) # "" THEN languageMap(answer.code)
                           ELSE answer.code,
              sample |-> sampleText,
              francArg |-> answer.arg]

\* A variant of Prefix that hands over the whole text.
Prefix_whole(t, n) == t

\* processedContent.slice(0, n) of a text
Prefix(t, n) ==
    LET lead == Min2(t.lead, n)
        body == Min2(t.body, n - lead)
    IN  [lead |-> lead, body |-> body, trail |-> Min2(t.trail, n - lead - body)]

\* the file parameter of processContent: no file, or a file whose extraction
\* resolved with a text and a tag, or rejected
Uploads ==
    {[status |-> "none", text |-> NoLangText, type |-> ""],
     [status |-> "rejected", text |-> NoLangText, type |-> ""]}
    \cup {[status |-> "resolved", text |-> t, type |-> "TXT"] :
            t \in [lead : {0, 2}, body : {0, 19, 20, 1001}, trail : {0}]}

SourceLanguages == {"auto", "Spanish"}

NoProcessed == [status |-> "none", error |-> "", content |-> NoLangText,
                sourceLanguage |-> "", sourceType |-> ""]

ProcessFailed(error) == [status |-> "rejected", error |-> error, content |-> NoLangText,
                         sourceLanguage |-> "", sourceType |-> ""]

\* processContent({ content, file, sourceLanguage, ... }): how its promise
\* settles, and the detection it ran
processContent(c, up, srcLang, fr) ==
    IF up.status = "rejected"
    THEN [out |-> ProcessFailed("FailedToProcessFile"), detection |-> NoDetection]
    ELSE LET processedContent == IF up.status = "resolved" THEN up.text ELSE c
             sourceType == IF up.status = "resolved" THEN up.type ELSE "text"
         IN  IF TextLength(processedContent) = 0 \/ IsBlank(processedContent)
             THEN [out |-> ProcessFailed("NoContent"), detection |-> NoDetection]
             ELSE LET detection ==
                          IF srcLang = "auto"
                          THEN detectLanguage(Prefix(processedContent, DetectPrefix), fr)
                          ELSE NoDetection
                      detectedLanguage ==
                          IF srcLang # "auto" THEN srcLang
                          ELSE IF detection.status = "resolved" THEN detection.language
                          ELSE "unknown"
                  IN  [out |-> [status |-> "resolved", error |-> "",
                                content |-> processedContent,
                                sourceLanguage |-> detectedLanguage,
                                sourceType |-> sourceType],
                       detection |-> detection]

LangIdle ==
    /\ textInput = NoLangText
    /\ franc = "und"
    /\ upload = [status |-> "none", text |-> NoLangText, type |-> ""]
    /\ sourceLanguage = ""
    /\ detected = NoDetection
    /\ processed = NoProcessed
    /\ lpc = "idle"

-----------------------------------------------------------------------------
(* extractFromCsv (utils/fileProcessors.ts) *)

\* the largest number of data records of a parsed CSV file
MaxRows == 12

\* results.meta.fields: the header names Papa.parse inferred
CsvFields == {<<>>, <<"a">>, <<"a", "b">>}

\* What Papa.parse does with the file: it calls `error`, or it calls
\* `complete` with the header names, the data records in file order (a record
\* is named by its position in the file) and possibly row errors, which are
\* only logged.  With header: true every record is an object, so the
\* formatting itself does not throw.
CsvParses ==
    [outcome : {"complete"}, fields : CsvFields, rows : 0..MaxRows,
     rowErrors : BOOLEAN]
    \cup [outcome : {"error"}, fields : {<<>>}, rows : {0}, rowErrors : {FALSE}]

NoCsvParse == [outcome |-> "none", fields |-> <<>>, rows |-> 0, rowErrors |-> FALSE]

\* results.data
CsvData(c) == [i \in 1..c.rows |-> i]

\* the number of records rendered in detail
DisplayCap == 10

\* data.slice(0, 10)
DisplayRows(data) == SubSeq(data, 1, Min2(Len(data), DisplayCap))

HeaderLine(c) ==
    IF Len(c.fields) > 0 THEN <<[kind |-> "headers", fields |-> c.fields, n |-> 0]>>
    ELSE <<>>

\* `Row ${index + 1}:` and the record's `key: value` lines
RowBlock(index, row) == [kind |-> "row", fields |-> <<>>, n |-> index + 1, record |-> row]

MoreRowsNotice_atCap(data) ==
    IF Len(data) >= DisplayCap
    THEN <<[kind |-> "more", fields |-> <<>>, n |-> Len(data) - DisplayCap]>>
    ELSE <<>>

\* `... and ${data.length - 10} more rows`
MoreRowsNotice(data) ==
    IF Len(data) > DisplayCap
    THEN <<[kind |-> "more", fields |-> <<>>, n |-> Len(data) - DisplayCap]>>
    ELSE <<>>

\* formattedText, as the sequence of the pieces appended to it
FormattedText(c) ==
    LET data == CsvData(c)
        displayRows == DisplayRows(data)
    IN  HeaderLine(c) \o
        (IF Len(data) > 0
         THEN <<[kind |-> "count", fields |-> <<>>, n |-> Len(data)]>>
              \o [k \in 1..Len(displayRows) |-> RowBlock(k - 1, displayRows[k])]
              \o MoreRowsNotice(data)
         ELSE <<[kind |-> "none", fields |-> <<>>, n |-> 0]>>)

NoCsvResult == [status |-> "pending", type |-> "", text |-> <<>>, error |-> ""]

extractFromCsv(c) ==
    IF c.outcome = "error"
    THEN [status |-> "rejected", type |-> "", text |-> <<>>,
          error |-> "Failed to parse CSV file: "]
    ELSE [status |-> "resolved", type |-> "CSV", text |-> FormattedText(c),
          error |-> ""]

CsvIdle ==
    /\ csvParse = NoCsvParse
    /\ csvResult = NoCsvResult
    /\ vpc = "idle"

-----------------------------------------------------------------------------
(* The summarization handlers (pages/api/summarize.ts, the route that is   *)
(* served, and pages_backup/api/summarize.ts)                              *)

\* the largest number of chunks the chunker makes of a request's content
MaxParts == 3

MAX_CONTENT_LENGTH == 100000

Handlers == {"pages", "pages_backup"}

ContentLengths == {0, MAX_CONTENT_LENGTH, MAX_CONTENT_LENGTH + 1, 250000}

\* A request: its method, whether ANTHROPIC_API_KEY is set, the length of
\* body.content with the number of chunks chunkContent makes of it, and
\* whether the other required fields are present.  The content is not blank
\* unless it is empty.
Requests ==
    { r \in [method : {"POST", "GET"}, apiKey : BOOLEAN,
             length : ContentLengths, parts : 1..MaxParts,
             targetLanguage : BOOLEAN, summaryLength : BOOLEAN] :
        /\ r.length <= MAX_CONTENT_LENGTH => r.parts = 1
        /\ r.method = "GET" =>
               r.apiKey /\ r.length = 0 /\ r.targetLanguage /\ r.summaryLength
        /\ ~r.summaryLength => r.apiKey /\ r.length = MAX_CONTENT_LENGTH /\ r.targetLanguage }

NoRequest == [method |-> "", apiKey |-> FALSE, length |-> 0, parts |-> 1,
              targetLanguage |-> FALSE, summaryLength |-> FALSE]

\* a piece of text: a stretch of the content, a marker or a summary
Piece(k, n) == [kind |-> k, n |-> n]

WholeContent(r) == <<Piece("content", r.length)>>

\* chunkContent(content, MAX_CONTENT_LENGTH): the chunks are named by their
\* position
ChunksOf(r) == [i \in 1..r.parts |-> <<Piece("chunk", i)>>]

\* data.content.substring(0, maxContentLength) and the truncation marker
TruncatedContent(r) ==
    IF r.length > MAX_CONTENT_LENGTH
    THEN <<Piece("prefix", MAX_CONTENT_LENGTH), Piece("truncated_marker", 0)>>
    ELSE WholeContent(r)

\* one anthropic.messages.create call
Call(prompt, section, body) == [prompt |-> prompt, section |-> section, body |-> body]

\* how a call settles: with a text, with no content block, or by rejecting
CallOutcomes == {"text", "empty", "rejects"}

NoResponse == [status |-> 0, summary |-> <<>>, error |-> ""]

Respond(status, summary, error) == [status |-> status, summary |-> summary, error |-> error]

\* the request is answered before any call is made
EarlyResponse(h, r) ==
    IF r.method # "POST" THEN Respond(405, <<>>, "Method not allowed")
    ELSE IF h = "pages_backup"
    THEN IF ~r.apiKey THEN Respond(500, <<>>, "Anthropic API key is missing or invalid")
         ELSE IF r.length = 0 \/ ~r.targetLanguage
         THEN Respond(400, <<>>, "Missing required fields")
         ELSE NoResponse
    ELSE IF r.length = 0 THEN Respond(400, <<>>, "Content is required.")
    ELSE IF ~r.targetLanguage THEN Respond(400, <<>>, "Target language is required.")
    ELSE IF ~r.summaryLength THEN Respond(400, <<>>, "Summary length is required.")
    ELSE IF ~r.apiKey THEN Respond(500, <<>>, "Anthropic API key error")
    ELSE NoResponse

\* the call for chunk i
ChunkCall(r, i) == Call("section", i, ChunksOf(r)[i])

\* chunkSummaries.join(...)
FinalCall(summaries) == Call("final", 0, summaries)

\* the handler runs up to its first await
HandlerStarts ==
    /\ hpc = "start"
    /\ IF EarlyResponse(served, req) # NoResponse
       THEN /\ response' = EarlyResponse(served, req)
            /\ hpc' = "done"
            /\ UNCHANGED <<reqChunks, calls>>
       ELSE IF served = "pages"
       THEN /\ calls' = <<Call("system", 0, TruncatedContent(req))>>
            /\ hpc' = "await_single"
            /\ UNCHANGED <<reqChunks, response>>
       ELSE IF req.length > MAX_CONTENT_LENGTH
       THEN /\ reqChunks' = ChunksOf(req)
            /\ calls' = <<ChunkCall(req, 1)>>
            /\ hpc' = "await_chunk"
            /\ UNCHANGED response
       ELSE /\ calls' = <<Call("single", 0, WholeContent(req))>>
            /\ hpc' = "await_single"
            /\ UNCHANGED <<reqChunks, response>>
    /\ UNCHANGED <<served, req, chunkSummaries, outsideSum>>

\* the call for chunk i settles: its summary or the placeholder is pushed,
\* and the next chunk call, or the final call, is issued
ChunkCallSettles(outcome) ==
    /\ hpc = "await_chunk"
    /\ LET i == Len(chunkSummaries) + 1
           pushed == Append(chunkSummaries,
                            IF outcome = "text" THEN Piece("summary", i)
                            ELSE Piece("error_placeholder", i))
       IN  /\ chunkSummaries' = pushed
           /\ IF i < Len(reqChunks)
              THEN /\ calls' = Append(calls, ChunkCall(req, i + 1))
                   /\ hpc' = "await_chunk"
              ELSE /\ calls' = Append(calls, FinalCall(pushed))
                   /\ hpc' = "await_final"
    /\ UNCHANGED <<served, req, reqChunks, response, outsideSum>>

\* the final call settles
FinalCallSettles(outcome) ==
    /\ hpc = "await_final"
    /\ response' = IF outcome = "text"
                   THEN Respond(200, <<Piece("final_summary", 0)>>, "")
                   ELSE Respond(200, <<Piece("raw_summaries_note", 0)>> \o chunkSummaries, "")
    /\ hpc' = "done"
    /\ UNCHANGED <<served, req, reqChunks, chunkSummaries, calls, outsideSum>>

\* the only call of a request settles
SingleCallSettles(outcome) ==
    /\ hpc = "await_single"
    /\ response' = IF outcome = "text"
                   THEN Respond(200, <<Piece("final_summary", 0)>>, "")
                   ELSE Respond(500, <<>>, "Failed to generate summary")
    /\ hpc' = "done"
    /\ UNCHANGED <<served, req, reqChunks, chunkSummaries, calls, outsideSum>>

SumIdle ==
    /\ served = "pages"
    /\ req = NoRequest
    /\ reqChunks = <<>>
    /\ chunkSummaries = <<>>
    /\ calls = <<>>
    /\ response = NoResponse
    /\ hpc = "idle"

-----------------------------------------------------------------------------
(* The summary history (utils/localStorage.ts) *)

\* the largest number of saves, deletes and repeated ids of a behaviour
MaxSaves == 21
MaxDeletes == 1
MaxCollisions == 1

\* [newItem, ...history].slice(0, 20)
HistoryCap == 20

\* the id of the dummy item returned on the server; generated ids are positive
ServerSideId == 0

\* an id no item has
AbsentId == -1

\* a history item: its id and the ordinal of the save that made it
Item(id, n) == [id |-> id, n |-> n]

NoItem == Item(AbsentId, 0)

\* localStorage.getItem(HISTORY_KEY): null until the first setItem
NoStorage == [set |-> FALSE, items |-> <<>>]

\* localStorage.setItem(HISTORY_KEY, JSON.stringify(items))
SetItem(items) == [set |-> TRUE, items |-> items]

\* getSummaryHistory
getSummaryHistory(st) == IF st.set THEN st.items ELSE <<>>

IdsOf(items) == {items[k].id : k \in 1..Len(items)}

\* generateId: Date.now() followed by Math.random(), both in base 36: an id
\* not used before or, when the previous call was a save in the same
\* millisecond and Math.random repeats itself, the id that save generated
generateId(n, previous, mayRepeat) ==
    {n} \cup (IF mayRepeat /\ previous.op = "save" THEN {previous.id} ELSE {})

UpdatedOnSave_uncapped(newItem, history) == <<newItem>> \o history

\* [newItem, ...history].slice(0, 20)
UpdatedOnSave(newItem, history) ==
    SubSeq(<<newItem>> \o history, 1, Min2(Len(history) + 1, HistoryCap))

\* history.filter(item => item.id !== id)
KeepsItem(item, id) == item.id # id

UpdatedOnDelete(history, id) == SelectSeq(history, LAMBDA item : KeepsItem(item, id))

NoCall == [op |-> "none", id |-> AbsentId, history |-> <<>>, item |-> NoItem,
           returned |-> FALSE, wrote |-> FALSE]

saveSummaryToHistory ==
    /\ saves < MaxSaves
    /\ saves' = saves + 1
    /\ IF ~window
       THEN /\ lastCall' = [op |-> "save", id |-> ServerSideId, history |-> <<>>,
                            item |-> Item(ServerSideId, saves + 1),
                            returned |-> TRUE, wrote |-> FALSE]
            /\ UNCHANGED <<storage, collisions>>
       ELSE LET history == getSummaryHistory(storage)
            IN  \E id \in generateId(saves + 1, lastCall, collisions < MaxCollisions) :
                    LET newItem == Item(id, saves + 1)
                    IN  /\ storage' = SetItem(UpdatedOnSave(newItem, history))
                        /\ collisions' = IF id = saves + 1 THEN collisions
                                         ELSE collisions + 1
                        /\ lastCall' = [op |-> "save", id |-> id, history |-> history,
                                        item |-> newItem, returned |-> TRUE,
                                        wrote |-> TRUE]
    /\ UNCHANGED <<window, deletes, outsideHist>>

deleteSummaryFromHistory(id) ==
    /\ deletes < MaxDeletes
    /\ deletes' = deletes + 1
    /\ IF ~window
       THEN /\ lastCall' = [op |-> "delete", id |-> id, history |-> <<>>,
                            item |-> NoItem, returned |-> FALSE, wrote |-> FALSE]
            /\ UNCHANGED storage
       ELSE LET history == getSummaryHistory(storage)
                updatedHistory == UpdatedOnDelete(history, id)
                changed == Len(updatedHistory) # Len(history)
            IN  /\ storage' = IF changed THEN SetItem(updatedHistory) ELSE storage
                /\ lastCall' = [op |-> "delete", id |-> id, history |-> history,
                                item |-> NoItem, returned |-> changed,
                                wrote |-> changed]
    /\ UNCHANGED <<window, saves, collisions, outsideHist>>

HistIdle ==
    /\ window = FALSE
    /\ storage = NoStorage
    /\ saves = 0
    /\ deletes = 0
    /\ collisions = 0
    /\ lastCall = NoCall

-----------------------------------------------------------------------------
(* extractFromJson (utils/fileProcessors.ts) *)

\* the longest rendering of a value of a parsed file
MaxValueLen == 103

\* substring(0, 100)
ValueCut == 100

\* A parsed file, as its root and the one entry `key: value` the rendering is
\* followed for: the entry of the first item of an array root, or of an object
\* root.  The value is nested (typeof value === 'object': an object or an
\* array, of serialization length len) or a primitive (String(value) of length
\* len).  A file that does not parse has the root "invalid".
JsonDocs ==
    [root : {"array", "object"}, nested : BOOLEAN, len : 1..MaxValueLen]
    \cup [root : {"scalar", "invalid"}, nested : {FALSE}, len : {1}]

NoJsonDoc == [root |-> "none", nested |-> FALSE, len |-> 0]

\* a rendered line: how it starts, the number of characters of the value it
\* shows, and whether '...' follows them
Line(k, shown, dots) == [kind |-> k, shown |-> shown, ellipsis |-> dots]

NoLine == Line("", 0, FALSE)

\* array root: valueStr = typeof value === 'object'
\*     ? JSON.stringify(value).substring(0, 100) : String(value),
\* then `  ${key}: ${valueStr}${valueStr.length > 100 ? '...' : ''}`
ArrayEntryLine(d) ==
    LET valueStr == IF d.nested THEN Min2(d.len, ValueCut) ELSE d.len
    IN  Line("entry", valueStr, valueStr > ValueCut)

\* object root: `${key}: ${JSON.stringify(value).substring(0, 100)}` and '...'
\* when JSON.stringify(value).length > 100, or `${key}: ${value}`
ObjectEntryLine(d) ==
    IF d.nested THEN Line("entry", Min2(d.len, ValueCut), d.len > ValueCut)
    ELSE Line("entry", d.len, FALSE)

extractFromJson(d) ==
    CASE d.root = "array" -> ArrayEntryLine(d)
      [] d.root = "object" -> ObjectEntryLine(d)
      [] d.root = "scalar" -> Line("JSON Content: ", d.len, FALSE)
      [] OTHER -> Line("syntax_errors_msg", 0, FALSE)

JsonIdle ==
    /\ jsonDoc = NoJsonDoc
    /\ jsonOut = NoLine
    /\ jpc = "idle"

-----------------------------------------------------------------------------
(* Specifications of the extraction *)

\* no extraction has reached an await yet
Fresh ==
    /\ lib = [p \in Procs |-> "none"]
    /\ timers = [p \in Procs |-> {}]
    /\ numPages = [p \in Procs |-> 0]
    /\ pageNum = [p \in Procs |-> 0]
    /\ extractedText = [p \in Procs |-> <<>>]
    /\ visited = [p \in Procs |-> <<>>]
    /\ pdfError = [p \in Procs |-> ""]
    /\ pdfText = [p \in Procs |-> NoText]
    /\ invoked = [p \in Procs |-> {}]
    /\ heard = [p \in Procs |-> <<>>]
    /\ result = [p \in Procs |-> NoResult]
    /\ workerInitialized = FALSE
    /\ workerSrc = "unset"

ExtractIdle ==
    /\ file = [p \in Procs |-> NoFile]
    /\ pc = [p \in Procs |-> "idle"]
    /\ Fresh

ChunkIdle ==
    /\ content = <<>>
    /\ maxChunkSize = 1
    /\ chunks = <<>>
    /\ cpc = "idle"

\* one extraction, of any file
Init ==
    /\ ChunkIdle /\ LangIdle /\ CsvIdle /\ SumIdle /\ HistIdle /\ JsonIdle
    /\ file \in {[p \in Procs |-> IF p = 1 THEN f ELSE NoFile] : f \in Files}
    /\ pc = [p \in Procs |-> IF p = 1 THEN "start" ELSE "idle"]
    /\ Fresh

Step(p) ==
    \/ StartExtract(p)
    \/ ExtractorResolves(p)
    \/ ExtractorRejects(p)
    \/ PdfReadOk(p)
    \/ PdfReadThrow(p)
    \/ LoadOk(p)
    \/ LoadThrow(p)
    \/ LoadTimeout(p)
    \/ \E hasInfo \in BOOLEAN : MetaOk(p, hasInfo)
    \/ MetaThrow(p)
    \/ GetPageOk(p)
    \/ GetPageThrow(p)
    \/ \E len \in PageTextLens : TextOk(p, len)
    \/ TextThrow(p)
    \/ TextTimeout(p)
    \/ RecGetPageOk(p)
    \/ RecGetPageThrow(p)
    \/ \E len \in PageTextLens : RecTextOk(p, len)
    \/ RecTextThrow(p)
    \/ PdfGate(p)
    \/ PdfCatch(p)
    \/ PdfReturn(p)
    \/ \E t \in timers[p] : TimerExpires(p, t)

Next == \E p \in Procs : Step(p)

Spec == Init /\ [][Next]_vars

\* The event loop runs every continuation that is ready: a promise that is
\* going to settle settles, and a timer that was set fires.
FairSpec == Spec /\ \A p \in Procs : WF_vars(Step(p))

\* Two extractions started together (FileUploader does not block a second
\* upload while the first is in flight), each of a one-page PDF or of a
\* DOCX file.
PdfOfPages(n) ==
    [type |-> PdfMime, name |-> <<"f", "pdf">>, size |-> 4096, bytes |-> "scan40",
     pages |-> n]

DocxFile ==
    [type |-> DocxMime, name |-> <<"f", "docx">>, size |-> 4096, bytes |-> "scan80",
     pages |-> 0]

InitConc ==
    /\ ChunkIdle /\ LangIdle /\ CsvIdle /\ SumIdle /\ HistIdle /\ JsonIdle
    /\ file \in [Procs -> {PdfOfPages(1), DocxFile}]
    /\ pc = [p \in Procs |-> "start"]
    /\ Fresh

SpecConc == InitConc /\ [][Next]_vars

-----------------------------------------------------------------------------
(* The extraction run alone, as a function of the file and of the          *)
(* settlements it receives at its awaits.                                  *)

RECURSIVE PageLoop(_, _, _, _)
\* for (pageNum = k; pageNum <= n; pageNum++) { try ... catch ... }
PageLoop(n, k, text, h) ==
    IF k > n THEN text
    ELSE IF h[1].op = "getPage_ok" /\ h[2].op = "text_ok"
    THEN PageLoop(n, k + 1, text \o PageTokens(n, k, h[2].n), SubSeq(h, 3, Len(h)))
    ELSE LET tried == IF h[1].op = "getPage_ok" THEN 2 ELSE 1
             r == SubSeq(h, tried + 1, Len(h))
             caught == text \o <<ErrorToken(k)>>
         IN  IF r[1].op = "rec_getPage_ok"
             THEN PageLoop(n, k + 1,
                           caught \o (IF r[2].op = "rec_text_ok"
                                      THEN RecoveredTokens(k, r[2].n) ELSE <<>>),
                           SubSeq(r, 3, Len(r)))
             ELSE PageLoop(n, k + 1, caught, Tail(r))

\* extractTextFromPdf(arrayBuffer), given the settlements of its awaits
extractTextFromPdf(bytes, h) ==
    IF h[1].op = "load_ok"
    THEN LET n == h[1].n
             meta == IF h[2].op = "meta_ok" /\ h[2].n = 1 THEN <<MetaToken>> ELSE <<>>
         IN  PdfMainResult(PageLoop(n, 1, meta, SubSeq(h, 3, Len(h))), bytes)
    ELSE PdfCatchResult(bytes, IF h[1].op = "load_timeout" THEN "load_timeout"
                               ELSE "load_failed")

\* extractTextFromFile(file), given the settlements of its awaits
extractTextFromFile(f, h) ==
    IF ExceedsSizeLimit(f) THEN Rejected("FileSizeExceeds")
    ELSE LET route == Route(fileType(f), fileExtension(f))
         IN  IF route = "NONE" THEN Rejected(OuterCatch(UnsupportedMessage))
             ELSE IF route = "PDF"
             THEN IF h[1].op = "read_throw"
                  THEN Resolved(Str("pdf_error_msg", 120), "PDF (Error)")
                  ELSE PdfBranchResult(extractTextFromPdf(f.bytes, Tail(h)))
             ELSE h[1].r

-----------------------------------------------------------------------------
(* Language detection as a state machine: a call of detectLanguage or of    *)
(* processContent with inputs drawn from the bounded sets, and its return.  *)

InitLang ==
    /\ textInput \in LangTexts
    /\ franc \in FrancBehaviours
    /\ upload \in Uploads
    /\ sourceLanguage \in SourceLanguages
    /\ (upload.status # "none" \/ sourceLanguage # "auto") =>
            textInput \in [lead : {0}, body : {0, 30}, trail : {0}]
    /\ detected = NoDetection
    /\ processed = NoProcessed
    /\ lpc = "input"
    /\ ChunkIdle /\ ExtractIdle /\ CsvIdle /\ SumIdle /\ HistIdle /\ JsonIdle

CallDetectLanguage ==
    /\ lpc = "input"
    /\ upload.status = "none" /\ sourceLanguage = "auto"
    /\ detected' = detectLanguage(textInput, franc)
    /\ lpc' = "done"
    /\ UNCHANGED <<textInput, franc, upload, sourceLanguage, processed, outsideLang>>

CallProcessContent ==
    /\ lpc = "input"
    /\ LET r == processContent(textInput, upload, sourceLanguage, franc)
       IN  processed' = r.out /\ detected' = r.detection
    /\ lpc' = "done"
    /\ UNCHANGED <<textInput, franc, upload, sourceLanguage, outsideLang>>

NextLang == CallDetectLanguage \/ CallProcessContent

SpecLang == InitLang /\ [][NextLang]_vars

-----------------------------------------------------------------------------
(* Specification of the CSV report *)

InitCsv ==
    /\ csvParse \in CsvParses
    /\ csvResult = NoCsvResult
    /\ vpc = "input"
    /\ ChunkIdle /\ ExtractIdle /\ LangIdle /\ SumIdle /\ HistIdle /\ JsonIdle

CallExtractFromCsv ==
    /\ vpc = "input"
    /\ csvResult' = extractFromCsv(csvParse)
    /\ vpc' = "done"
    /\ UNCHANGED <<csvParse, outsideCsv>>

NextCsv == CallExtractFromCsv

SpecCsv == InitCsv /\ [][NextCsv]_vars

-----------------------------------------------------------------------------
(* Specification of the summarization request *)

InitSum ==
    /\ served \in Handlers
    /\ req \in Requests
    /\ reqChunks = <<>>
    /\ chunkSummaries = <<>>
    /\ calls = <<>>
    /\ response = NoResponse
    /\ hpc = "start"
    /\ ChunkIdle /\ ExtractIdle /\ LangIdle /\ CsvIdle /\ HistIdle /\ JsonIdle

NextSum ==
    \/ HandlerStarts
    \/ \E o \in CallOutcomes : ChunkCallSettles(o)
    \/ \E o \in CallOutcomes : FinalCallSettles(o)
    \/ \E o \in CallOutcomes : SingleCallSettles(o)

SpecSum == InitSum /\ [][NextSum]_vars

-----------------------------------------------------------------------------
(* Specification of the summary history *)

InitHist ==
    /\ window \in BOOLEAN
    /\ storage = NoStorage
    /\ saves = 0
    /\ deletes = 0
    /\ collisions = 0
    /\ lastCall = NoCall
    /\ ChunkIdle /\ ExtractIdle /\ LangIdle /\ CsvIdle /\ SumIdle /\ JsonIdle

NextHist ==
    \/ saveSummaryToHistory
    \/ \E id \in IdsOf(getSummaryHistory(storage)) \cup {AbsentId} :
           deleteSummaryFromHistory(id)

SpecHist == InitHist /\ [][NextHist]_vars

-----------------------------------------------------------------------------
(* Specification of the JSON rendering *)

InitJson ==
    /\ jsonDoc \in JsonDocs
    /\ jsonOut = NoLine
    /\ jpc = "input"
    /\ ChunkIdle /\ ExtractIdle /\ LangIdle /\ CsvIdle /\ SumIdle /\ HistIdle

CallExtractFromJson ==
    /\ jpc = "input"
    /\ jsonOut' = extractFromJson(jsonDoc)
    /\ jpc' = "done"
    /\ UNCHANGED <<jsonDoc, outsideJson>>

NextJson == CallExtractFromJson

SpecJson == InitJson /\ [][NextJson]_vars

-----------------------------------------------------------------------------
(* The chunker as a state machine: a call with inputs drawn from the bounded *)
(* sets, and its return.                                                     *)

InitChunk ==
    /\ content \in Texts
    /\ maxChunkSize \in 1..MaxM
    /\ chunks = <<>>
    /\ cpc = "input"
    /\ ExtractIdle /\ LangIdle /\ CsvIdle /\ SumIdle /\ HistIdle /\ JsonIdle

CallChunkContent ==
    /\ cpc = "input"
    /\ chunks' = chunkContent(content, maxChunkSize)
    /\ cpc' = "done"
    /\ UNCHANGED <<content, maxChunkSize, outsideChunk>>

NextChunk == CallChunkContent

SpecChunk == InitChunk /\ [][NextChunk]_vars

-----------------------------------------------------------------------------
(* Properties of the chunker *)

HasWs(s) == \E i \in 1..Len(s) : IsWs(s[i])

\* s occurs in w as a contiguous slice
IsSliceOf(s, w) ==
    \E a \in 1..(Len(w) + 1) : a + Len(s) - 1 <= Len(w) /\ SubSeq(w, a, a + Len(s) - 1) = s

\* the words of t: its maximal runs of non-whitespace characters
WordsOf(t) ==
    {SubSeq(t, a, b) : <<a, b>> \in
        {<<a, b>> \in (1..Len(t)) \X (1..Len(t)) :
            /\ a <= b
            /\ \A i \in a..b : ~IsWs(t[i])
            /\ (a = 1 \/ IsWs(t[a - 1]))
            /\ (b = Len(t) \/ IsWs(t[b + 1]))}}

\* c is cut out of one word of t that is itself longer than m
FromLongWord(c, t, m) ==
    /\ ~HasWs(c)
    /\ \E w \in WordsOf(t) : Len(w) > m /\ IsSliceOf(c, w)

\* C1: every chunk chunkContent returns is at most maxChunkSize long, the
\* separator appended after a paragraph or sentence included; the only
\* exception is a chunk cut out of a single word longer than maxChunkSize.
C1_ChunkWithinLimit ==
    cpc = "done" =>
        \A i \in 1..Len(chunks) :
            \/ Len(chunks[i]) <= maxChunkSize
            \/ FromLongWord(chunks[i], content, maxChunkSize)

\* the sentences of the paragraphs of t, in order
RECURSIVE SentencesOfAll(_)
SentencesOfAll(paragraphs) ==
    IF paragraphs = <<>> THEN <<>>
    ELSE SplitSentences(Head(paragraphs)) \o SentencesOfAll(Tail(paragraphs))

PiecesOf(t) == SentencesOfAll(SplitParagraphs(t))

\* s is the pieces in order, each verbatim, with nothing but whitespace
\* before, between and after them
RECURSIVE MatchPieces(_, _)
MatchPieces(pieces, s) ==
    IF pieces = <<>> THEN \A i \in 1..Len(s) : IsWs(s[i])
    ELSE LET h == Head(pieces)
         IN  \E k \in 0..Len(s) :
                /\ \A i \in 1..k : IsWs(s[i])
                /\ k + Len(h) <= Len(s)
                /\ SubSeq(s, k + 1, k + Len(h)) = h
                /\ MatchPieces(Tail(pieces), SubSeq(s, k + Len(h) + 1, Len(s)))

\* C2: the chunks concatenated in order are the sentences of the paragraphs
\* of the text, each verbatim and in order, with only whitespace (the
\* paragraph and sentence separators) between them: nothing of the text is
\* dropped, duplicated or reordered at any of the three levels.
C2_ConcatLossless ==
    cpc = "done" => MatchPieces(PiecesOf(content), Concat(chunks))

\* a text whose chunking packs paragraphs, packs sentences and slices
C2_Witness ==
    /\ cpc = "done"
    /\ Len(content) > maxChunkSize
    /\ Len(SplitParagraphs(content)) > 1
    /\ \E i \in 1..Len(SplitParagraphs(content)) :
          LET p == SplitParagraphs(content)[i]
          IN  /\ Len(p) > maxChunkSize
              /\ Len(SplitSentences(p)) > 1
              /\ \E j \in 1..Len(SplitSentences(p)) :
                    Len(SplitSentences(p)[j]) > maxChunkSize
    /\ MatchPieces(PiecesOf(content), Concat(chunks))

\* C3: a text no longer than maxChunkSize (the empty text and a text of
\* exactly maxChunkSize characters included) comes back as the single chunk
\* [t], unchanged.
C3_SmallInputSingleChunk ==
    cpc = "done" /\ Len(content) <= maxChunkSize => chunks = <<content>>

\* a text of exactly maxChunkSize characters, with separators in it
C3_Witness ==
    /\ cpc = "done"
    /\ Len(content) = maxChunkSize
    /\ Len(SplitParagraphs(content)) > 1
    /\ chunks = <<content>>

-----------------------------------------------------------------------------
(* Properties of the PDF engine and of the dispatcher, for one extraction *)

HasToken(p, kind, k) ==
    \E i \in 1..Len(extractedText[p]) :
        extractedText[p][i].kind = kind /\ extractedText[p][i].page = k

\* C4: the pages of an opened document are processed in the order 1..N, each
\* once; text already collected is never removed; and once page k has failed
\* (its placeholder line is recorded) each of the pages k+1..N is still
\* processed.
C4_PageFailureDoesNotAbort ==
    /\ [](pc[1] = "pdf_gate" => visited[1] = [i \in 1..numPages[1] |-> i])
    /\ [][pc[1] \notin {"pdf_load", "idle", "start", "pdf_read"} =>
            /\ Len(extractedText'[1]) >= Len(extractedText[1])
            /\ SubSeq(extractedText'[1], 1, Len(extractedText[1])) = extractedText[1]]_vars
    /\ \A k \in 1..MaxPages :
            HasToken(1, "error", k) ~>
                (\A j \in (k + 1)..numPages[1] : \E i \in 1..Len(visited[1]) : visited[1][i] = j)

\* C5: once extractTextFromPdf has been called it eventually returns, also
\* when a call into the PDF library never completes.
C5_PdfExtractionSettles == (pc[1] = "pdf_load") ~> (pc[1] = "pdf_return")

IsPdfFile(f) == Route(fileType(f), fileExtension(f)) = "PDF" /\ ~ExceedsSizeLimit(f)

PdfTags == {"PDF", "PDF (Limited Extraction)", "PDF (Error)"}

\* C6: for a file dispatched to the PDF branch nothing is surfaced as an
\* exception: extractTextFromFile never rejects, the string extractTextFromPdf
\* returns is not empty, and the result carries one of the three PDF tags and
\* a text.
C6_PdfNeverRejects ==
    IsPdfFile(file[1]) =>
        /\ result[1].status # "rejected"
        /\ (pc[1] = "pdf_return" => pdfText[1].len > 0)
        /\ (pc[1] = "done" =>
                /\ result[1].status = "resolved"
                /\ result[1].type \in PdfTags
                /\ result[1].text.len > 0)

\* the load timed out, the byte scan failed as well, and the caller still
\* received a text tagged PDF
C6_Witness ==
    /\ pc[1] = "done"
    /\ pdfError[1] = "load_timeout"
    /\ file[1].bytes = "scanfail"
    /\ result[1].status = "resolved"
    /\ result[1].type = "PDF"

\* The dispatch table of the specification: the families in their order and
\* what makes a file match each.
FamilyOrder == <<"PDF", "DOCX", "DOC", "TXT", "HTML", "CSV", "XLSX", "JSON", "TEXT">>

FamilyMatches(fam, type, ext) ==
    CASE fam = "PDF" -> type = "application/pdf" \/ ext = "pdf"
      [] fam = "DOCX" -> type = DocxMime \/ ext = "docx"
      [] fam = "DOC" -> type = "application/msword" \/ ext = "doc"
      [] fam = "TXT" -> type = "text/plain" \/ ext \in {"txt", "md", "rtf"}
      [] fam = "HTML" -> type = "text/html" \/ ext \in {"html", "htm"}
      [] fam = "CSV" -> type = "text/csv" \/ ext = "csv"
      [] fam = "XLSX" -> type \in {XlsxMime, XlsMime} \/ ext \in {"xlsx", "xls"}
      [] fam = "JSON" -> type = "application/json" \/ ext = "json"
      [] fam = "TEXT" -> type = "" \/ StartsWithText(type)

FirstMatching(type, ext) ==
    LET idx == {i \in 1..Len(FamilyOrder) : FamilyMatches(FamilyOrder[i], type, ext)}
    IN  IF idx = {} THEN "NONE" ELSE FamilyOrder[SetMin(idx)]

FamilyTags(fam, ext) ==
    CASE fam = "PDF" -> PdfTags
      [] fam = "TXT" -> {IF ext = "" THEN "TXT" ELSE UpperCase(ext)}
      [] fam = "XLSX" -> {UpperCase(ext)}
      [] OTHER -> {fam}

\* the last dot-separated part of the lower-cased name, as the dispatcher
\* takes it
ExtOf(f) == LowerCase(f.name[Len(f.name)])

\* C7: a file (within the size limit) is routed to the first family, in the
\* order PDF, DOCX, DOC, plain text, HTML, CSV, spreadsheet, JSON, generic
\* text, whose MIME type or extension matches; no other family's extractor is
\* entered, and a result carries that family's tag.
C7_FirstMatchingFamilyWins ==
    LET f == file[1]
        fam == FirstMatching(f.type, ExtOf(f))
    IN  (pc[1] \notin {"idle", "start"} /\ f.size <= MAX_FILE_SIZE) =>
            /\ invoked[1] = (IF fam = "NONE" THEN {} ELSE {fam})
            /\ (result[1].status = "resolved" => result[1].type \in FamilyTags(fam, ExtOf(f)))

\* the type says JSON, the extension says DOCX: the earlier family wins
C7_Witness ==
    /\ pc[1] = "done"
    /\ file[1].type = "application/json"
    /\ file[1].name = <<"f", "docx">>
    /\ invoked[1] = {"DOCX"}
    /\ result[1].status = "resolved"
    /\ result[1].type = "DOCX"

NoNamedFamilyMatches(f) ==
    \A i \in 1..(Len(FamilyOrder) - 1) : ~FamilyMatches(FamilyOrder[i], f.type, ExtOf(f))

Unsupported(p) == pc[p] = "done" => result[p] = Rejected("UnsupportedFormat")

\* C8: when no named family matches the type or the extension (file within
\* the size limit), extractTextFromFile fails with the UnsupportedFormat
\* error and returns no result, (a) for a non-empty type that is not text/*,
\* without attempting a text decode, and (b) for an empty or text/* type when
\* the file is zero-byte or decodes to whitespace only.
C8_UnsupportedFormat ==
    LET f == file[1]
    IN  (pc[1] \notin {"idle", "start"} /\ f.size <= MAX_FILE_SIZE /\ NoNamedFamilyMatches(f)) =>
            /\ (f.type # "" /\ ~StartsWithText(f.type)) =>
                    /\ invoked[1] = {}
                    /\ pc[1] = "done"
                    /\ result[1] = Rejected("UnsupportedFormat")
            /\ ((f.type = "" \/ StartsWithText(f.type)) /\ f.bytes \in {"empty", "blank"}) =>
                    /\ result[1].status # "resolved"
                    /\ Unsupported(1)

\* a text/markdown file of whitespace only: decoded, then refused
C8_Witness ==
    /\ pc[1] = "done"
    /\ file[1].type = "text/markdown"
    /\ file[1].name = <<"f", "bin">>
    /\ file[1].bytes = "blank"
    /\ invoked[1] = {"TEXT"}
    /\ result[1] = Rejected("UnsupportedFormat")

-----------------------------------------------------------------------------
(* Two extractions in flight *)

\* C10: under every interleaving of two extractions at their awaits, the
\* result of each is the one it produces alone on its file with the same
\* settlements of its own awaits, and an extraction that awaits the document
\* load finds the PDF worker configured whether it or the other extraction
\* ran the initialisation.
C10_ConcurrentExtractionsIndependent ==
    \A p \in Procs :
        /\ pc[p] = "done" => result[p] = extractTextFromFile(file[p], heard[p])
        /\ pc[p] = "pdf_load" => workerInitialized /\ workerSrc = "cdn"

\* two one-page PDFs were extracted together; the page of the first timed
\* out, the page of the second was read
C10_Witness ==
    /\ pc[1] = "done" /\ pc[2] = "done"
    /\ file[1] = PdfOfPages(1) /\ file[2] = PdfOfPages(1)
    /\ \E i \in 1..Len(heard[1]) : heard[1][i].op = "text_timeout"
    /\ \E i \in 1..Len(heard[2]) : heard[2][i].op = "text_ok" /\ heard[2][i].n = 50
    /\ result[1].type = "PDF"
    /\ result[2].type = "PDF (Limited Extraction)"

-----------------------------------------------------------------------------
(* Properties of the language detection *)

DetectReturned == lpc = "done" /\ detected.status = "resolved" /\ processed = NoProcessed

ProcessReturned == lpc = "done" /\ processed # NoProcessed

\* C11: the sample detectLanguage hands to the detector, for a text t of
\* length L that is not blank: t whole when L <= 1000; t[0,1000) when
\* 1000 < L <= 2000; t[0,600), a space, t[L/2 - 300, L/2 + 300), a space,
\* t[L-600, L) when L > 2000.
C11_SampleZones ==
    DetectReturned /\ ~IsBlank(textInput) =>
        LET L == TextLength(textInput)
            mid == L \div 2
        IN  detected.sample =
                IF L <= 1000 THEN << Seg(0, L) >>
                ELSE IF L <= 2000 THEN << Seg(0, 1000) >>
                ELSE << Seg(0, 600), Space, Seg(mid - 300, mid + 300), Space, Seg(L - 600, L) >>

\* a text of exactly 2000 characters, sampled by its first 1000
C11_Witness ==
    /\ DetectReturned
    /\ TextLength(textInput) = 2000
    /\ detected.sample = << Seg(0, 1000) >>

\* C12: detectLanguage returns 'unknown' for the empty text, for a text of
\* whitespace only and for every text of fewer than 20 characters, and franc
\* is not called for any of them.
C12_ShortTextUnknown ==
    DetectReturned /\ (IsBlank(textInput) \/ TextLength(textInput) < 20) =>
        /\ detected.language = "unknown"
        /\ detected.francArg = NotCalled

\* 19 letters and a detector that would have answered English
C12_Witness ==
    /\ DetectReturned
    /\ textInput = [lead |-> 0, body |-> 19, trail |-> 0]
    /\ franc = "eng"
    /\ detected.language = "unknown"

DetectorFails == franc \in {"unavailable", "throws"}

\* C13: detectLanguage never rejects and answers 'unknown' whenever franc is
\* unavailable or throws; processContent with sourceLanguage 'auto' and a
\* content to summarize then still resolves, with sourceLanguage 'unknown' in
\* its payload.
C13_DetectionNonFatal ==
    /\ lpc = "done" => detected.status # "rejected"
    /\ DetectReturned /\ DetectorFails => detected.language = "unknown"
    /\ (ProcessReturned /\ DetectorFails /\ sourceLanguage = "auto"
            /\ upload.status # "rejected"
            /\ ~IsBlank(IF upload.status = "resolved" THEN upload.text ELSE textInput)) =>
        /\ processed.status = "resolved"
        /\ processed.sourceLanguage = "unknown"

\* franc was called on the text of an uploaded file and threw
C13_Witness ==
    /\ ProcessReturned
    /\ franc = "throws"
    /\ sourceLanguage = "auto"
    /\ upload.status = "resolved"
    /\ detected.francArg >= 20
    /\ processed.status = "resolved"
    /\ processed.sourceLanguage = "unknown"

-----------------------------------------------------------------------------
(* Further properties of the extraction *)

\* C14: when the document load fails or times out and the byte scan finds at
\* least 100 characters, extractTextFromPdf returns the scanned text (followed
\* by its note on the fallback method), not an error message, and
\* extractTextFromFile resolves with it under the tag 'PDF'.
C14_FallbackTextAfterLoadFailure ==
    (IsPdfFile(file[1]) /\ pdfError[1] \in {"load_failed", "load_timeout"}
        /\ extractBasicTextFromPdf(file[1].bytes).kind = "scan"
        /\ extractBasicTextFromPdf(file[1].bytes).len >= 100) =>
        /\ pc[1] \in {"pdf_return", "done"} =>
                /\ pdfText[1].kind = "scan_with_note"
                /\ pdfText[1].len > extractBasicTextFromPdf(file[1].bytes).len
        /\ pc[1] = "done" => result[1] = Resolved(pdfText[1], "PDF")

\* the load timed out on bytes holding exactly 100 scannable characters
C14_Witness ==
    /\ pc[1] = "done"
    /\ pdfError[1] = "load_timeout"
    /\ file[1].bytes = "scan100"
    /\ result[1].type = "PDF"
    /\ result[1].text.kind = "scan_with_note"

RouteOf(f) == Route(fileType(f), fileExtension(f))

\* C15: a file dispatched as DOC or as a spreadsheet (within the size limit)
\* is never rejected, and the text extractFromDoc contributes is never empty:
\* the result of the DOC branch has a text of positive length and that of the
\* spreadsheet branch has more than its banner.
C15_DocNeverFails ==
    (RouteOf(file[1]) \in {"DOC", "XLSX"} /\ ~ExceedsSizeLimit(file[1])) =>
        /\ result[1].status # "rejected"
        /\ pc[1] = "done" =>
                /\ result[1].status = "resolved"
                /\ result[1].text.len >
                        (IF RouteOf(file[1]) = "XLSX" THEN ExcelBannerLen ELSE 0)

\* a .doc file whose clean-up left nothing: the caveat message is the text
C15_Witness ==
    /\ pc[1] = "done"
    /\ RouteOf(file[1]) = "DOC"
    /\ result[1] = Resolved(Str("doc_limited_msg", 99), "DOC")

DeclaredPlainText(f) == f.type = "text/plain" \/ ExtOf(f) = "txt"

\* C16 as stated: a file (within the size limit, its read succeeding) whose
\* MIME type is text/plain or whose extension is txt yields its decoded
\* content, untrimmed, under the tag 'TXT'.
C16_PlainTextTaggedTxt ==
    (pc[1] = "done" /\ DeclaredPlainText(file[1]) /\ file[1].size <= MAX_FILE_SIZE
        /\ result[1].status = "resolved") =>
        result[1] = Resolved(Str("content", file[1].size), "TXT")

\* C16 as amended: a file within the size limit that reaches the plain-text
\* branch (type text/plain or extension txt, md or rtf, and no match for PDF,
\* DOCX or DOC) and whose read succeeds yields its decoded content, untrimmed;
\* the tag is the upper-cased extension, and 'TXT' when the extension is txt
\* or empty.
C16_PlainTextTaggedByExtension ==
    LET f == file[1]
    IN  (pc[1] = "done" /\ f.size <= MAX_FILE_SIZE /\ result[1].status = "resolved"
            /\ FirstMatching(f.type, ExtOf(f)) = "TXT") =>
            /\ DeclaredPlainText(f) \/ ExtOf(f) \in {"md", "rtf"}
            /\ result[1].text = Str("content", f.size)
            /\ result[1].type = IF ExtOf(f) \in {"txt", ""} THEN "TXT"
                                ELSE UpperCase(ExtOf(f))
            /\ ExtOf(f) = "md" => result[1].type = "MD"

\* a .txt file of whitespace only is returned as it is, tagged 'TXT'
C16_Witness ==
    /\ pc[1] = "done"
    /\ file[1].name = <<"f", "txt">>
    /\ file[1].bytes = "blank"
    /\ result[1] = Resolved(Str("content", 4096), "TXT")

-----------------------------------------------------------------------------
(* C17 *)

CsvReturned == vpc = "done" /\ csvResult.status = "resolved"

IsPiece(x, k) == x.kind = k

CsvPieces(t, k) == SelectSeq(t, LAMBDA x : IsPiece(x, k))

\* C17: for a CSV file with a header row and n data records the report lists
\* the headers, states the record count n (for n = 0: that no data rows were
\* found), holds exactly min(n, 10) record blocks, numbered 1..min(n, 10) and
\* showing the records 1..min(n, 10) in file order, and holds the notice
\* "... and N more rows" if and only if n > 10, with N = n - 10.
C17_CsvReport ==
    (CsvReturned /\ Len(csvParse.fields) > 0) =>
        LET n == csvParse.rows
            text == csvResult.text
            rowBlocks == CsvPieces(text, "row")
            notices == CsvPieces(text, "more")
        IN  /\ csvResult.type = "CSV"
            /\ text[1].kind = "headers" /\ text[1].fields = csvParse.fields
            /\ Len(CsvPieces(text, "headers")) = 1
            /\ IF n > 0
               THEN /\ text[2].kind = "count" /\ text[2].n = n
                    /\ CsvPieces(text, "none") = <<>>
               ELSE /\ text[2].kind = "none"
                    /\ CsvPieces(text, "count") = <<>>
            /\ Len(rowBlocks) = Min2(n, 10)
            /\ \A k \in 1..Len(rowBlocks) :
                   /\ rowBlocks[k].n = k
                   /\ rowBlocks[k].record = k
                   /\ text[2 + k] = rowBlocks[k]
            /\ (notices # <<>>) <=> (n > 10)
            /\ n > 10 => /\ Len(notices) = 1
                         /\ notices[1].n = n - 10
                         /\ text[Len(text)] = notices[1]

C17_Witness ==
    /\ CsvReturned
    /\ csvParse.fields = <<"a", "b">>
    /\ csvParse.rows = 12
    /\ Len(CsvPieces(csvResult.text, "row")) = 10
    /\ CsvPieces(csvResult.text, "more")[1].n = 2

-----------------------------------------------------------------------------
(* C18 *)

\* the request passes validation and its content is longer than the limit
LongRequest == hpc # "idle" /\ EarlyResponse(served, req) = NoResponse
               /\ req.length > MAX_CONTENT_LENGTH

\* the calls the chunked summarization makes: one per chunk, in chunk order,
\* then one over the chunk summaries
ChunkedCalls(r, summaries) ==
    [i \in 1..r.parts |-> ChunkCall(r, i)] \o <<FinalCall(summaries)>>

\* C18: when the content of a request is longer than 100,000 characters the
\* handler issues one call per chunk of the chunker, in chunk order, then
\* exactly one further call over the chunk summaries, whatever the outcome of
\* the chunk calls; no call carries truncated content.
C18_LongContentIsChunked ==
    LongRequest =>
        /\ \A k \in 1..Len(calls) :
               /\ k <= req.parts => calls[k] = ChunkCall(req, k)
               /\ k > req.parts => calls[k].prompt = "final"
               /\ \A j \in 1..Len(calls[k].body) :
                      calls[k].body[j].kind \notin {"prefix", "truncated_marker"}
        /\ hpc = "done" =>
               /\ Len(calls) = req.parts + 1
               /\ calls = ChunkedCalls(req, chunkSummaries)
               /\ Len(chunkSummaries) = req.parts

-----------------------------------------------------------------------------
(* C19 *)

StoredHistory == getSummaryHistory(storage)

\* b is a with some entries left out, the others in the same order
RECURSIVE IsSubsequence(_, _)
IsSubsequence(b, a) ==
    IF b = <<>> THEN TRUE
    ELSE IF a = <<>> THEN FALSE
    ELSE IF Head(a) = Head(b) THEN IsSubsequence(Tail(b), Tail(a))
    ELSE IsSubsequence(b, Tail(a))

\* C19: starting from an empty store, after any saves and deletes the stored
\* history holds at most 20 entries, newest first; a save puts the new entry
\* at index 0 and keeps the others in their order, dropping exactly the oldest
\* one when there were 20; a delete removes exactly the entries with the
\* given id and keeps the rest in their order, returns true iff it removed
\* something and does not write the store otherwise.
C19_HistoryCappedNewestFirst ==
    window =>
        LET h == StoredHistory
            before == lastCall.history
        IN  /\ Len(h) <= 20
            /\ \A j, k \in 1..Len(h) : j < k => h[j].n > h[k].n
            /\ lastCall.op = "save" =>
                   /\ lastCall.wrote
                   /\ h[1] = lastCall.item
                   /\ Tail(h) = IF Len(before) = 20 THEN SubSeq(before, 1, 19)
                                ELSE before
            /\ lastCall.op = "delete" =>
                   /\ IsSubsequence(h, before)
                   /\ \A k \in 1..Len(before) :
                          (before[k].id # lastCall.id)
                              <=> (\E j \in 1..Len(h) : h[j] = before[k])
                   /\ lastCall.returned
                          <=> (\E k \in 1..Len(before) : before[k].id = lastCall.id)
                   /\ lastCall.wrote <=> lastCall.returned
                   /\ ~lastCall.wrote => h = before

\* the 21st entry has evicted the first one
C19_Witness ==
    /\ window
    /\ lastCall.op = "save"
    /\ Len(lastCall.history) = 20
    /\ Len(StoredHistory) = 20
    /\ StoredHistory[1].n = 21
    /\ StoredHistory[20].n = 2

-----------------------------------------------------------------------------
(* C20 *)

\* the number of characters the pages themselves contributed to the buffer
RECURSIVE PageTextLen(_)
PageTextLen(text) ==
    IF text = <<>> THEN 0
    ELSE (CASE Head(text).kind = "text" -> Head(text).body
            [] Head(text).kind = "recovered" -> Head(text).body - 29
            [] OTHER -> 0)
         + PageTextLen(Tail(text))

\* extractTextFromPdf has opened the document and returned past its page loop
ReturnedAfterLoop(p) ==
    /\ IsPdfFile(file[p])
    /\ pc[p] \in {"pdf_return", "done"}
    /\ numPages[p] > 0
    /\ pdfError[p] = ""
    /\ pdfText[p] # NoText

\* C20: for an opened PDF whose pages yield fewer than 50 characters of text,
\* extractTextFromPdf returns what the byte scan found if that is meaningful
\* (more than 100 characters) and the scanned-PDF placeholder otherwise,
\* whatever metadata header, page markers and error placeholders the buffer
\* holds.
C20_ScannedPdfFallsBack ==
    (ReturnedAfterLoop(1) /\ PageTextLen(extractedText[1]) < 50) =>
        LET basicText == extractBasicTextFromPdf(file[1].bytes)
        IN  pdfText[1] = IF basicText.kind = "scan" /\ basicText.len > 100
                         THEN basicText
                         ELSE Str("scanned_msg", 300)

-----------------------------------------------------------------------------
(* C21, C22 *)

\* C21: the buffer of an extraction never holds both the placeholder
\* '[Error extracting text from page k]' and recovered text for the same page
\* k: recovered text of more than 20 characters replaces the placeholder.
C21_RecoveredReplacesPlaceholder ==
    \A k \in 1..MaxPages :
        HasToken(1, "recovered", k) => ~HasToken(1, "error", k)

\* C22: once extractTextFromPdf has returned, no timer created by that
\* extraction is still pending: the timer of every race the awaited operation
\* won has been cancelled.
C22_NoTimerPendingAfterReturn ==
    (IsPdfFile(file[1]) /\ pc[1] \in {"pdf_return", "done"}) => timers[1] = {}

-----------------------------------------------------------------------------
(* C23, C27 *)

\* C23: for a text longer than maxChunkSize, chunkContent returns no
\* empty-string chunk.
C23_NoEmptyChunk ==
    (cpc = "done" /\ Len(content) > maxChunkSize) =>
        \A i \in 1..Len(chunks) : chunks[i] # <<>>

\* ceil(s / m)
CeilDiv(s, m) == (s + m - 1) \div m

\* the sentences longer than m of the paragraphs longer than m of t
LongSentences(t, m) ==
    LET ps == SplitParagraphs(t)
    IN  UNION { LET ss == SplitSentences(ps[i])
                IN  {ss[j] : j \in {x \in 1..Len(ss) : Len(ss[x]) > m}}
              : i \in {x \in 1..Len(ps) : Len(ps[x]) > m} }

\* cs[off + 1 .. off + ceil(s/m)] are the consecutive width-m slices of sentence
SlicedAt(cs, off, sentence, m) ==
    LET n == CeilDiv(Len(sentence), m)
    IN  /\ off + n <= Len(cs)
        /\ \A j \in 1..n :
               /\ cs[off + j] = SubSeq(sentence, (j - 1) * m + 1,
                                       Min2(j * m, Len(sentence)))
               /\ j < n => Len(cs[off + j]) = m
               /\ Len(cs[off + j]) \in 1..m

SlicesExact ==
    /\ Len(chunks) <= Len(content) + 2
    /\ Len(content) > maxChunkSize =>
           \A sentence \in LongSentences(content, maxChunkSize) :
               \E off \in 0..Len(chunks) :
                   SlicedAt(chunks, off, sentence, maxChunkSize)

-----------------------------------------------------------------------------
(* C24 *)

\* C24: under an array root and under an object root alike, a nested value
\* whose serialization is longer than 100 characters is rendered as its first
\* 100 characters followed by '...', and a value rendered in full is followed
\* by no '...'.
C24_OneTruncationRule ==
    (jpc = "done" /\ jsonDoc.root \in {"array", "object"}) =>
        /\ jsonDoc.nested =>
               IF jsonDoc.len > 100
               THEN jsonOut.shown = 100 /\ jsonOut.ellipsis
               ELSE jsonOut.shown = jsonDoc.len
        /\ jsonOut.shown = jsonDoc.len => ~jsonOut.ellipsis

-----------------------------------------------------------------------------
(* C25 *)

\* C25: a failure of the DOCX extractor, or a total failure of the CSV
\* parser, is surfaced by extractTextFromFile as the CorruptedFile error,
\* whatever the message of the underlying parser.
C25_ParserFailureIsCorruptedFile ==
    (RouteOf(file[1]) \in {"DOCX", "CSV"} /\ ~ExceedsSizeLimit(file[1])
        /\ result[1].status = "rejected") =>
        result[1].error = "CorruptedFile"

-----------------------------------------------------------------------------
(* C29 *)

\* the name holds no dot
Dotless(f) == Len(f.name) = 1

\* C29: a file whose name holds no dot has no extension: with an empty MIME
\* type it is routed to no extractor but the generic text fallback, and
\* whatever its type its format tag is never the whole file name in upper
\* case.
C29_DotlessNameHasNoExtension ==
    LET f == file[1]
    IN  (Dotless(f) /\ pc[1] \notin {"idle", "start"} /\ ~ExceedsSizeLimit(f)) =>
            /\ f.type = "" => invoked[1] \subseteq {"TEXT"}
            /\ result[1].status = "resolved" => result[1].type # UpperCase(f.name[1])

-----------------------------------------------------------------------------
(* C26 *)

\* C26: in the text the main path returns, every run of spaces is one space
\* and every run of blank lines is one blank line: the blank line that ends
\* the metadata header and the text of a page is still a blank line (two
\* newlines) after the clean-up, not a space.
C26_BlankLinesSurvive ==
    (ReturnedAfterLoop(1) /\ pdfText[1].kind = "cleaned") =>
        /\ pdfText[1].len = CleanLen(extractedText[1])
        /\ \A i \in 1..(Len(extractedText[1]) - 1) :
               LET tok == extractedText[1][i]
               IN  (/\ tok.body > 0
                    /\ TrailRun(tok).newlines >= 2
                    /\ \E j \in (i + 1)..Len(extractedText[1]) :
                           extractedText[1][j].body > 0) =>
                       CleanRun(TrailRun(tok)) = Run(0, 2)

-----------------------------------------------------------------------------
(* C28 *)

\* the returned text ends with the note on the fallback method
EndsWithNote(t) ==
    t.kind \in {"scan_with_note", "scan_failed_msg_with_note", "no_readable_msg_with_note"}

\* C28: when the text extractTextFromPdf returns ends with the note on the
\* fallback method, the text before the note was recovered from the bytes by
\* the byte scan, never one of the byte scan's failure messages; when the
\* byte scan recovers nothing after a failure of the structured parse, the
\* result is the 'Unable to extract text' explanation.
C28_NoteOnlyOnRecoveredText ==
    (IsPdfFile(file[1]) /\ pc[1] \in {"pdf_return", "done"}) =>
        /\ EndsWithNote(pdfText[1]) => pdfText[1].kind = "scan_with_note"
        /\ (pdfError[1] # "" /\ extractBasicTextFromPdf(file[1].bytes).kind # "scan") =>
               pdfText[1].kind = "unable_msg"

-----------------------------------------------------------------------------
(* C30 *)

\* the text processContent works on
ProcessedContent == IF upload.status = "resolved" THEN upload.text ELSE textInput

\* C30: with sourceLanguage 'auto' the detection depends only on the first
\* 5000 characters of the content: the sample is taken inside that prefix, and
\* every content with the same first 5000 characters gets the same detector
\* input and the same detected language; payload.content is the full content;
\* with any other sourceLanguage the detector is not called and the value is
\* passed through.
C30_DetectionDependsOnPrefixOnly ==
    (ProcessReturned /\ processed.status = "resolved") =>
        /\ processed.content = ProcessedContent
        /\ sourceLanguage # "auto" =>
               /\ detected = NoDetection
               /\ processed.sourceLanguage = sourceLanguage
        /\ sourceLanguage = "auto" =>
               /\ detected.sample =
                      SampleOf(Min2(TextLength(ProcessedContent), 5000))
               /\ \A t \in LangTexts :
                      (~IsBlank(t) /\ Prefix(t, 5000) = Prefix(ProcessedContent, 5000)) =>
                          LET other == processContent(t, [upload EXCEPT !.text = t],
                                                      "auto", franc)
                          IN  /\ other.out.sourceLanguage = processed.sourceLanguage
                              /\ other.detection = detected
                              /\ other.out.content = t

\* a content of more than 5000 characters, sampled inside its prefix, and
\* another content with the same prefix and a different end
C30_Witness ==
    /\ ProcessReturned /\ processed.status = "resolved"
    /\ sourceLanguage = "auto"
    /\ TextLength(textInput) > 5000
    /\ processed.content = textInput
    /\ detected.sample = SampleOf(5000)
    /\ processed.sourceLanguage = "English"
    /\ \E t \in LangTexts :
           /\ t # textInput
           /\ Prefix(t, 5000) = Prefix(textInput, 5000)

====
